---------------------------- MODULE Spec2Model ----------------------------
(***************************************************************************)
(* Whitted-style ray tracer (scene.h, renderer.cpp).                       *)
(*                                                                         *)
(* Numbers.  The program computes in IEEE single precision.  The model     *)
(* computes in fixed point: a float v is the integer round(v * 1000);      *)
(* products, quotients and square roots are rounded to the nearest unit;   *)
(* a result beyond the largest number is an infinity.  The three IEEE      *)
(* values that the intersection code                                       *)
(* relies on (+inf, -inf, NaN: a division by a zero direction component)   *)
(* are kept as three distinguished numbers with the IEEE rules for         *)
(* comparison (every comparison with NaN is false) and arithmetic.         *)
(* The two huge literals of the source, 1e34f (no hit yet) and 1e20 (the   *)
(* torus solver's "no root yet"), are two distinguished numbers above      *)
(* every distance the scene can produce, in the source's order.            *)
(***************************************************************************)
EXTENDS Integers, Sequences, FiniteSets, TLC

VARIABLES
    animTime,    \* Scene::animTime
    spherePos,   \* Scene::sphere.pos (the bouncing ball)
    cubeM,       \* Scene::cube.M
    cubeInvM,    \* Scene::cube.invM
    fnRay,       \* FindNearest: the ray being intersected (O, D, t, objIdx, inside)
    fnPc,        \* FindNearest: the next intersection step
    fnFt4,       \* FindNearest: the four lanes of ft4 (light quads)
    occ,         \* Scene::IsOccluded: the shadow ray, the next test, the result
    gn,          \* Scene::GetNormal: the arguments and the returned normal
    stack,       \* Renderer::Trace: the active calls, innermost last
    ret,         \* Renderer::Trace: the value the last finished call returned
    hist,        \* Renderer::Trace: what the calls have done so far
    setLog,      \* Scene::SetTime: the arguments of the calls made so far
    tick,        \* Renderer::Tick: the frame, its scanline threads, the buffers
    light,       \* Scene::RandomPointOnLight: the arguments and the sample
    cubeCall,    \* Cube::Intersect: a ray given to both builds of the test
    getCall      \* Scene::GetNormal / GetAlbedo: a call, what it read and gave

sceneVars == <<animTime, spherePos, cubeM, cubeInvM>>
fnVars == <<fnRay, fnPc, fnFt4>>
occVars == <<occ>>
gnVars == <<gn>>
traceVars == <<stack, ret, hist>>
restVars == <<setLog, tick, light, cubeCall, getCall>>
vars == <<animTime, spherePos, cubeM, cubeInvM, fnRay, fnPc, fnFt4, occ, gn,
          stack, ret, hist, setLog, tick, light, cubeCall, getCall>>

---------------------------------------------------------------------------
(* Bounds of the model *)

\* animation times explored: 0, TimeStep, ..., MaxTimeIdx * TimeStep
MaxTimeIdx == 2

\* SetTime calls made in a row on one scene
MaxSetTimeCalls == 4

\* the frame buffer of the model, the threads of the parallel loop and the
\* frames rendered in a row
SCRWIDTH == 2
SCRHEIGHT == 2
NumThreads == 2
MaxFrames == 2

\* the random numbers given to RandomPointOnLight: k / LightSamples
LightSamples == 20

---------------------------------------------------------------------------
(* Fixed-point arithmetic with the IEEE special values *)

\* one unit of the fixed-point scale: 1.0f
One == 10 * 100

\* Ray::t = 1e34f
Sentinel == 2000000000
\* Torus::Intersect: double t = 1e20
TorusFar == 1000000000

PosInf == Sentinel + 1000
NegInf == -PosInf
NaN == PosInf + 1000

IsNaN(a) == a = NaN
IsInf(a) == a = PosInf \/ a = NegInf

\* a < b and a > b of IEEE: false when either side is NaN
Lt(a, b) == ~IsNaN(a) /\ ~IsNaN(b) /\ a < b
Gt(a, b) == ~IsNaN(a) /\ ~IsNaN(b) /\ a > b

\* neither an infinity nor NaN
Fin(a) == NegInf < a /\ a < PosInf

Abs(a) == IF a < 0 THEN -a ELSE a

\* the sign of a product or quotient of two numbers that are not zero
SignOf(a, b) == IF (a < 0) = (b < 0) THEN 1 ELSE -1

\* integer quotient rounded to the nearest integer (b # 0)
RDiv(a, b) == SignOf(a, b) * ((Abs(a) + Abs(b) \div 2) \div Abs(b))

\* unary minus
Neg(a) == IF IsNaN(a) THEN NaN ELSE -a

\* a + b; a sum beyond the largest number overflows to infinity
Add(a, b) ==
    IF Fin(a) /\ Fin(b)
    THEN (IF a > 0 /\ b > Sentinel - a THEN PosInf
          ELSE IF a < 0 /\ b < -Sentinel - a THEN NegInf
          ELSE a + b)
    ELSE IF IsNaN(a) \/ IsNaN(b) \/ (IsInf(a) /\ IsInf(b) /\ a # b) THEN NaN
    ELSE IF IsInf(a) THEN a
    ELSE b

Sub(a, b) == Add(a, Neg(b))

\* the product of two non-negative finite numbers hi >= lo, rounded to
\* nearest; a product beyond the largest number overflows to infinity
MulMag(hi, lo) ==
    IF lo = 0 THEN 0
    ELSE IF hi \div One > Sentinel \div lo THEN PosInf
    ELSE lo * (hi \div One) + (lo * (hi % One) + One \div 2) \div One

\* a * b
Mul(a, b) ==
    IF Fin(a) /\ Fin(b)
    THEN SignOf(a, b) * (IF Abs(a) > Abs(b) THEN MulMag(Abs(a), Abs(b))
                         ELSE MulMag(Abs(b), Abs(a)))
    ELSE IF IsNaN(a) \/ IsNaN(b) \/ a = 0 \/ b = 0 THEN NaN
    ELSE SignOf(a, b) * PosInf

\* the quotient of a non-negative and a positive finite number, rounded to
\* nearest
DivMag(x, y) ==
    IF x \div y > Sentinel \div One THEN PosInf
    ELSE (x \div y) * One
         + (IF x % y > Sentinel \div One THEN (x % y) \div (y \div One)
            ELSE ((x % y) * One + y \div 2) \div y)

\* a / b; a zero divisor is +0.0f
Div(a, b) ==
    IF Fin(a) /\ Fin(b) /\ b # 0 THEN SignOf(a, b) * DivMag(Abs(a), Abs(b))
    ELSE IF IsNaN(a) \/ IsNaN(b) \/ (IsInf(a) /\ IsInf(b)) \/ a = b THEN NaN
    ELSE IF IsInf(b) THEN 0
    ELSE IF (a > 0) = (b >= 0) THEN PosInf
    ELSE NegInf

\* 1 / d, as in the Ray constructor (rD) and the cube's rd4
Recip(d) == Div(One, d)

\* (a - b) * (1 / d): one slab distance; computed as one quotient so that a
\* small d does not leave the fixed-point range
SlabT(a, d) == Div(a, d)

\* a > b ? a : b and a < b ? a : b (the second operand when either is NaN)
MaxF(a, b) == IF Gt(a, b) THEN a ELSE b
MinF(a, b) == IF Lt(a, b) THEN a ELSE b

RECURSIVE SqrtIter(_, _)
SqrtIter(n, g) ==
    LET h == (g + n \div g) \div 2
    IN  IF h >= g THEN g ELSE SqrtIter(n, h)

\* floor of the square root of a non-negative integer
ISqrt(n) == IF n <= 0 THEN 0 ELSE SqrtIter(n, n)

\* square root of a non-negative integer, rounded to nearest
ISqrtNearest(n) ==
    LET r == ISqrt(n) IN IF n - r * r > r THEN r + 1 ELSE r

\* sqrtf: NaN below zero
SqrtF(a) ==
    IF IsNaN(a) \/ a < 0 THEN NaN
    ELSE IF a = PosInf THEN PosInf
    ELSE IF a > Sentinel \div One THEN ISqrtNearest(a) * 32
    ELSE ISqrtNearest(a * One)

Dot(u, v) == Add(Add(Mul(u[1], v[1]), Mul(u[2], v[2])), Mul(u[3], v[3]))
VSub(u, v) == <<Sub(u[1], v[1]), Sub(u[2], v[2]), Sub(u[3], v[3])>>
VAdd(u, v) == <<Add(u[1], v[1]), Add(u[2], v[2]), Add(u[3], v[3])>>
VScale(a, u) == <<Mul(a, u[1]), Mul(a, u[2]), Mul(a, u[3])>>
VNeg(u) == <<Neg(u[1]), Neg(u[2]), Neg(u[3])>>
Zero3 == <<0, 0, 0>>

---------------------------------------------------------------------------
(* Scene state: the animation clock and what SetTime derives from it *)

\* cosf and sinf by their power series; exact to the fixed-point unit for
\* angles up to 2 radians
CosSeries(a2, a4) ==
    One - RDiv(a2, 2) + RDiv(a4, 24) - RDiv(Mul(a4, a2), 720)
        + RDiv(Mul(a4, a4), 40320) - RDiv(Mul(Mul(a4, a4), a2), 3628800)
CosSquares(a2) == CosSeries(a2, Mul(a2, a2))
CosF(a) == CosSquares(Mul(a, a))

SinSeries(a, a2, a3) ==
    a - RDiv(a3, 6) + RDiv(Mul(a3, a2), 120) - RDiv(Mul(Mul(a3, a2), a2), 5040)
      + RDiv(Mul(Mul(Mul(a3, a2), a2), a2), 362880)
SinSquares(a, a2) == SinSeries(a, a2, Mul(a2, a))
SinF(a) == SinSquares(a, Mul(a, a))

\* PI / 4
QuarterPi == 785

\* rotation parts of mat4::RotateX, RotateY, RotateZ (rows of a 3x3 matrix)
\* from the cosine and the sine of the angle
RotX(c, s) == << <<One, 0, 0>>, <<0, c, -s>>, <<0, s, c>> >>
RotY(c, s) == << <<c, 0, s>>, <<0, One, 0>>, <<-s, 0, c>> >>
RotZ(c, s) == << <<c, -s, 0>>, <<s, c, 0>>, <<0, 0, One>> >>
RotateX(a) == RotX(CosF(a), SinF(a))
RotateY(a) == RotY(CosF(a), SinF(a))
RotateZ(a) == RotZ(CosF(a), SinF(a))

Col(A, j) == <<A[1][j], A[2][j], A[3][j]>>
MatMul(A, B) == [i \in 1..3 |-> [j \in 1..3 |-> Dot(A[i], Col(B, j))]]
Transpose(A) == [i \in 1..3 |-> Col(A, i)]
MatVec(A, v) == <<Dot(A[1], v), Dot(A[2], v), Dot(A[3], v)>>

\* an affine transform: rotation R and translation T
\* TransformPosition( p, M ) and TransformVector( v, M )
TransformPosition(p, M) == VAdd(MatVec(M.R, p), M.T)
TransformVector(v, M) == MatVec(M.R, v)

\* mat4::FastInvertedTransformNoScale: transposed rotation, translation -R^T T
InvertedFrom(Rt, T) == [R |-> Rt, T |-> VNeg(MatVec(Rt, T))]
FastInvertedTransformNoScale(M) == InvertedFrom(Transpose(M.R), M.T)

\* SetTime: cube animation (spin)
CubeMAt(t) ==
    LET M2base == MatMul(RotateX(QuarterPi), RotateZ(QuarterPi))
    IN  [R |-> MatMul(RotateY(Mul(t, 500)), M2base), T |-> <<1800, 0, 2500>>]

\* SetTime: sphere animation (bounce); fmodf for t >= 0
Bounce(f) == One - Mul(f, f)
SpherePosAt(t) == <<-1800, -400 + Bounce((t % (2 * One)) - One), 1000>>

\* the scene state that SetTime( t ) leaves
SceneWith(t, M) ==
    [animTime |-> t,
     spherePos |-> SpherePosAt(t),
     cubeM |-> M,
     cubeInvM |-> FastInvertedTransformNoScale(M)]
SceneAt(t) == CHOOSE sc \in {SceneWith(t, M) : M \in {CubeMAt(t)}} : TRUE

\* the scene as the four state variables hold it
CurScene ==
    [animTime |-> animTime, spherePos |-> spherePos, cubeM |-> cubeM,
     cubeInvM |-> cubeInvM]

\* animation step of the explored times: 0.5 s
TimeStep == One \div 2
Times == {k * TimeStep : k \in 0..MaxTimeIdx}

\* a slip that advances the animation by t instead of setting it to t
SetTimeFrom_Advances(sc, t) == SceneAt(sc.animTime + t)

\* the scene that SetTime( t ) makes of the scene sc: animTime = t, and the
\* cube transforms and the ball position computed from animTime alone
SetTimeFrom(sc, t) == SceneAt(t)

\* Scene::SetTime( t )
SetTime(t) ==
    \E sc \in {SetTimeFrom(CurScene, t)} :
        /\ animTime' = sc.animTime
        /\ cubeM' = sc.cubeM
        /\ cubeInvM' = sc.cubeInvM
        /\ spherePos' = sc.spherePos

\* cube.b[0], cube.b[1]: Cube( 3, float3( 0 ), float3( 1.15f ) )
CubeBMin == <<-575, -575, -575>>
CubeBMax == <<575, 575, 575>>

---------------------------------------------------------------------------
(* Ray *)

\* Ray( origin, direction, distance = 1e34f, idx = -1 ); inside = false
NewRay(O, D, distance) ==
    [O |-> O, D |-> D, t |-> distance, objIdx |-> -1, inside |-> FALSE]

\* a slip that records the distance and forgets the identifier
Hit_DistanceOnly(ray, t, i) == [ray EXCEPT !.t = t]

\* ray.t = t, ray.objIdx = i
Hit(ray, t, i) == [ray EXCEPT !.t = t, !.objIdx = i]

---------------------------------------------------------------------------
(* Scene::FindNearest, one operator per intersection step *)

\* the one element of a set of one
The(S) == CHOOSE x \in S : TRUE

\* a slip that forgets that a hit must lie in front of the origin
Nearer_NoPositivityTest(ray, t, i) == IF Lt(t, ray.t) THEN Hit(ray, t, i) ELSE ray

\* a slip that lets an equal distance replace the hit
Nearer_OnTies(ray, t, i) == IF ~Gt(t, ray.t) /\ Gt(t, 0) THEN Hit(ray, t, i) ELSE ray

\* if (t < ray.t && t > 0) ray.t = t, ray.objIdx = i
Nearer(ray, t, i) == IF Lt(t, ray.t) /\ Gt(t, 0) THEN Hit(ray, t, i) ELSE ray

\* PLANE_X / PLANE_Y / PLANE_Z: t = -(ray.O[axis] + o) * ray.rD[axis]
PlaneT(ray, axis, o) == Mul(-(ray.O[axis] + o), Recip(ray.D[axis]))
PlaneM(ray, axis, o, i) == Nearer(ray, PlaneT(ray, axis, o), i)

\* if ( ray.D.x < 0 ) PLANE_X( 3, 4 ) else PLANE_X( -2.99f, 5 );
StepPlaneX(ray) ==
    PlaneM(ray, 1, IF ray.D[1] < 0 THEN 3000 ELSE -2990,
                   IF ray.D[1] < 0 THEN 4 ELSE 5)

\* if ( ray.D.y < 0 ) PLANE_Y( 1, 6 ) else PLANE_Y( -2, 7 );
StepPlaneY(ray) ==
    PlaneM(ray, 2, IF ray.D[2] < 0 THEN 1000 ELSE -2000,
                   IF ray.D[2] < 0 THEN 6 ELSE 7)

\* if ( ray.D.z < 0 ) PLANE_Z( 3, 8 ) else PLANE_Z( -3.99f, 9 );
StepPlaneZ(ray) ==
    PlaneM(ray, 3, IF ray.D[3] < 0 THEN 3000 ELSE -3990,
                   IF ray.D[3] < 0 THEN 8 ELSE 9)

\* the four light quads: the lane offsets { 1, -1, -1, 1 } and { 1, 1, -1, -1 }
QuadOffX == <<1000, -1000, -1000, 1000>>
QuadOffZ == <<1000, 1000, -1000, -1000>>

\* tq4 = (ray.O.y - 1.5) / (ray.D.y ^ -0.0f); a zero ray.D.y becomes -0.0f
QuadTqOf(oy, dy) ==
    IF dy = 0
    THEN (IF oy > 0 THEN NegInf ELSE IF oy < 0 THEN PosInf ELSE NaN)
    ELSE RDiv(oy * One, -dy)
QuadTq(ray) == QuadTqOf(ray.O[2] - 1500, ray.D[2])

\* hitmask: Ix and Iz within the quad's half size
QuadHitMask(Ix, Iz) ==
    Gt(Ix, -250) /\ Lt(Ix, 250) /\ Gt(Iz, -250) /\ Lt(Iz, 250)

\* hitmask & valmask of lane i, for the ray as it is before the first lane
QuadMaskAt(ray, tq, i) ==
    /\ QuadHitMask(Add(ray.O[1] + QuadOffX[i], Mul(tq, ray.D[1])),
                   Add(ray.O[3] + QuadOffZ[i], Mul(tq, ray.D[3])))
    /\ Lt(tq, ray.t) /\ Gt(tq, 0)
QuadMask(ray, i) == QuadMaskAt(ray, QuadTq(ray), i)

\* ft4 = blendv( 1e34f, tq4, mask )
QuadBlend(ray, tq) ==
    [i \in 1..4 |-> IF QuadMaskAt(ray, tq, i) THEN tq ELSE Sentinel]
QuadFt4(ray) == The({QuadBlend(ray, tq) : tq \in {QuadTq(ray)}})

\* if ( ft4[i] < ray.t ) ray.t = ft4[i], ray.objIdx = 0;
StepQuadLane(ray, ft4, i) ==
    IF Lt(ft4[i], ray.t) THEN Hit(ray, ft4[i], 0) ELSE ray

\* the whole FOURLIGHTS block
StepQuadLanes(ray, ft4) ==
    StepQuadLane(StepQuadLane(StepQuadLane(StepQuadLane(ray, ft4, 1), ft4, 2), ft4, 3), ft4, 4)
StepQuads(ray) == The({StepQuadLanes(ray, ft4) : ft4 \in {QuadFt4(ray)}})

\* the half-b quadratic of a sphere: b, c and the discriminant d
SphereCOf(oc, r2) == Dot(oc, oc) - r2
SphereDOf(b, c) == Mul(b, b) - c
SphereB(ray, pos) == Dot(VSub(ray.O, pos), ray.D)
SphereC(ray, pos, r2) == SphereCOf(VSub(ray.O, pos), r2)
SphereD(ray, pos, r2) == SphereDOf(SphereB(ray, pos), SphereC(ray, pos, r2))

\* 0.6f * 0.6f and 8 * 8
BallR2 == 360
CornerR2 == 64000
\* float3( 0, 2.5f, -3.07f )
CornerPos == <<0, 2500, -3070>>

\* the hardcoded bouncing ball: the near root only
BallNear(ray, b, d) ==
    IF d > 0 THEN Nearer(ray, -b - SqrtF(d), 1) ELSE ray
StepBall(ray, spos) ==
    The({BallNear(ray, bd[1], bd[2]) :
           bd \in {<<SphereB(ray, spos), SphereD(ray, spos, BallR2)>>}})

\* the hardcoded rounded-corner sphere: the far root only
CornerFar(ray, b, d) ==
    IF d > 0 THEN Nearer(ray, SqrtF(d) - b, 2) ELSE ray
StepCorner(ray) ==
    The({CornerFar(ray, bd[1], bd[2]) :
           bd \in {<<SphereB(ray, CornerPos), SphereD(ray, CornerPos, CornerR2)>>}})

\* Cube: o4 and d4, the ray in object space
CubeO(ray, invM) == TransformPosition(ray.O, invM)
CubeD(ray, invM) == TransformVector(ray.D, invM)

\* t1 = (bmin4 - o4) * rd4, t2 = (bmax4 - o4) * rd4; lanes 0..2
CubeT1(o, d) == [i \in 1..3 |-> SlabT(CubeBMin[i] - o[i], d[i])]
CubeT2(o, d) == [i \in 1..3 |-> SlabT(CubeBMax[i] - o[i], d[i])]

\* tmax = min( vmax4[0], min( vmax4[1], vmax4[2] ) ), vmax4 = max_ps( t1, t2 )
CubeTmaxOf(t1, t2) ==
    MinF(MaxF(t1[1], t2[1]), MinF(MaxF(t1[2], t2[2]), MaxF(t1[3], t2[3])))

\* tmin = max( vmin4[0], max( vmin4[1], vmin4[2] ) ), vmin4 = min_ps( t1, t2 )
CubeTminOf(t1, t2) ==
    MaxF(MinF(t1[1], t2[1]), MaxF(MinF(t1[2], t2[2]), MinF(t1[3], t2[3])))

\* << tmin, tmax >> of the ray o4, d4
CubeSpanOf(t1, t2) == <<CubeTminOf(t1, t2), CubeTmaxOf(t1, t2)>>
CubeSpanAt(od) ==
    The({CubeSpanOf(t[1], t[2]) : t \in {<<CubeT1(od[1], od[2]), CubeT2(od[1], od[2])>>}})
CubeSpan(ray, invM) ==
    The({CubeSpanAt(od) : od \in {<<CubeO(ray, invM), CubeD(ray, invM)>>}})

\* Cube::Intersect (SPEEDTRIX): the entering distance if positive, else the
\* exiting distance if positive
CubeNear(ray, tmin, tmax) ==
    IF Lt(tmin, tmax)
    THEN IF Gt(tmin, 0)
         THEN (IF Lt(tmin, ray.t) THEN Hit(ray, tmin, 3) ELSE ray)
         ELSE IF Gt(tmax, 0)
              THEN (IF Lt(tmax, ray.t) THEN Hit(ray, tmax, 3) ELSE ray)
              ELSE ray
    ELSE ray
CubeIntersect(ray, invM) ==
    The({CubeNear(ray, span[1], span[2]) : span \in {CubeSpan(ray, invM)}})

\* Torus: the ray in the torus' object space (the hardcoded invT)
TorusO(ray) ==
    <<ray.O[1] + 250,
      Mul(707, ray.O[2]) + Mul(707, ray.O[3]) - 1414,
      -Mul(707, ray.O[2]) + Mul(707, ray.O[3]) - 1414>>
TorusD(ray) ==
    <<ray.D[1],
      Mul(707, ray.D[2]) + Mul(707, ray.D[3]),
      -Mul(707, ray.D[2]) + Mul(707, ray.D[3])>>

\* << m, k3 >>: m = dot( O, O ), k3 = dot( O, D )
TorusMK3(O, D) == <<Dot(O, O), Dot(O, D)>>

\* bounding sphere test: if ( k32 < m - 1.10249984 ) return;
TorusMissesOf(m, k3) == Mul(k3, k3) < m - 1102
TorusMissesBound(ray) ==
    The({TorusMissesOf(mk[1], mk[2]) : mk \in {TorusMK3(TorusO(ray), TorusD(ray))}})

\* The quartic solver (k, k0..k3, the resolvent cubic, d1, d2, h) needs double
\* precision and cos/acos/cbrt; the model keeps what it computes, the real
\* roots of the quartic, which are the parameters t where the ray's line
\* crosses the torus (major radius 0.8, minor radius 0.25, axis z).  The
\* line is sampled along its chord of the bounding sphere and a root is
\* placed wherever two neighbouring samples lie on different sides of the
\* surface.

\* F < 0 inside the tube: ( sqrt( x^2 + y^2 ) - 0.8 )^2 + z^2 - 0.25^2
TorusFOf(q, z) == (q - 800) * (q - 800) + z * z - 250 * 250
TorusF(P) == TorusFOf(ISqrtNearest(P[1] * P[1] + P[2] * P[2]), P[3])

\* distance between two samples
TorusStep == One \div 50

\* half the length of the chord
TorusHalfChord(m, k3) == SqrtF(Mul(k3, k3) - m + 1102)

\* F at the samples t0, t0 + TorusStep, ... and the roots between them
TorusSamples(O, D, t0, n) ==
    [j \in 0..n |-> TorusF(VAdd(O, VScale(t0 + j * TorusStep, D)))]
TorusCrossings(f, t0, n) ==
    {t0 + j * TorusStep
        + RDiv(TorusStep * Abs(f[j]), Abs(f[j]) + Abs(f[j + 1])) :
     j \in {i \in 0..(n - 1) : (f[i] < 0) # (f[i + 1] < 0)}}
TorusRootsFrom(O, D, t0, n) ==
    UNION {TorusCrossings(f, t0, n) : f \in {TorusSamples(O, D, t0, n)}}
TorusRootsOn(O, D, k3, s) ==
    TorusRootsFrom(O, D, -k3 - s - 2 * TorusStep, (2 * s) \div TorusStep + 5)
TorusRootsAt(O, D) ==
    UNION {TorusRootsOn(O, D, c[1], c[2]) :
             c \in {<<mk[2], TorusHalfChord(mk[1], mk[2])>> : mk \in {TorusMK3(O, D)}}}
TorusRoots(ray) ==
    UNION {TorusRootsAt(od[1], od[2]) : od \in {<<TorusO(ray), TorusD(ray)>>}}

SetMin(S) == CHOOSE x \in S : \A y \in S : x <= y

\* double t = 1e20, then the smallest positive root of the two branches
TorusTOf(pos) == IF pos = {} THEN TorusFar ELSE SetMin(pos)
TorusT(roots) == TorusTOf({t \in roots : t > 0})

\* Torus::Intersect.  A quartic without real roots leaves at the d1 / d2
\* tests before t is set; with real roots t is compared whatever it holds.
TorusIntersect(ray) ==
    IF TorusMissesBound(ray) THEN ray
    ELSE The({IF roots = {} THEN ray ELSE Nearer(ray, TorusT(roots), 10) :
                roots \in {TorusRoots(ray)}})

\* Scene::FindNearest, all steps in the source's order; each step works on
\* the ray the step before it left
FindNearestSteps(ray, sc) ==
    LET s1 == {StepPlaneX(ray)}
        s2 == {StepPlaneY(r) : r \in s1}
        s3 == {StepPlaneZ(r) : r \in s2}
        s4 == {StepQuads(r) : r \in s3}
        s5 == {StepBall(r, sc.spherePos) : r \in s4}
        s6 == {StepCorner(r) : r \in s5}
        s7 == {CubeIntersect(r, sc.cubeInvM) : r \in s6}
        s8 == {TorusIntersect(r) : r \in s7}
    IN  The(s8)

\* A ray of NaNs (the child of a hit whose normal is NaN) fails every
\* comparison of every test; what is left is the torus' untouched 1e20,
\* which passes ft > 0 && ft < ray.t.
IsNaNRay(ray) == \E i \in 1..3 : IsNaN(ray.O[i]) \/ IsNaN(ray.D[i])
FindNearest(ray, sc) ==
    IF IsNaNRay(ray) THEN Nearer(ray, TorusFar, 10) ELSE FindNearestSteps(ray, sc)

---------------------------------------------------------------------------
(* The rays of the model *)

AxisDirs ==
    {<<One, 0, 0>>, <<-One, 0, 0>>, <<0, One, 0>>, <<0, -One, 0>>,
     <<0, 0, One>>, <<0, 0, -One>>}

\* origins from which all six axis directions are traced: under a light
\* quad, above a light quad, the ball's rest position, the cube's centre,
\* a rounded corner, left of the room, right of the room (beside the torus'
\* line and on it), the far corner behind the rounded corner
FullOrigins ==
    {<<1000, 0, 1000>>, <<1000, 1800, 1000>>, <<-1800, -400, 1000>>,
     <<1800, 0, 2500>>, <<2900, 0, 3900>>, <<-5000, 0, 0>>,
     <<9000, 0, 2500>>, <<9000, 0, 2000>>, <<-2900, -300, -500>>}

\* origins on lines through the torus, traced along x: left of the
\* torus, inside its tube, in its hole, and on a line off its centre
TorusOrigins ==
    {<<-2900, 0, 2000>>, <<550, 0, 2000>>, <<-250, 0, 2000>>,
     <<-2900, 100, 2100>>, <<550, 100, 2100>>}

\* oblique unit directions, traced from a point in the middle of the room
ObliqueDirs ==
    {<<577, 577, 577>>, <<0, -600, 800>>, <<600, 0, 800>>, <<-600, -800, 0>>}

RayGeoms ==
    {<<o, d>> : o \in FullOrigins, d \in AxisDirs}
    \cup {<<o, d>> : o \in TorusOrigins, d \in {<<One, 0, 0>>, <<-One, 0, 0>>}}
    \cup {<<<<0, 0, -2 * One>>, d>> : d \in ObliqueDirs}

\* rays into an edge and into a corner of the room, where two or three
\* wall planes lie at exactly the same distance: the edge of left wall and
\* floor, the edge of floor and front wall, the corner of all three
TieGeoms ==
    {<<<<-2 * One, 0, 0>>, <<-707, -707, 0>>>>,
     <<<<0, 0, -2 * One>>, <<0, -707, -707>>>>,
     <<<<-2 * One, 0, -2 * One>>, <<-577, -577, -577>>>>}

---------------------------------------------------------------------------
(* Scene::FindNearest as a machine: one action per primitive test *)

FnSteps ==
    <<"planeX", "planeY", "planeZ", "quadMask", "quad1", "quad2", "quad3",
      "quad4", "ball", "corner", "cube", "torus", "done">>

FnNext(pc) == FnSteps[(CHOOSE i \in 1..Len(FnSteps) : FnSteps[i] = pc) + 1]

\* the scene after Scene::Scene and any number of SetTime calls
SceneInit ==
    \E t \in Times :
    \E sc \in {SceneAt(t)} :
        /\ animTime = sc.animTime
        /\ spherePos = sc.spherePos
        /\ cubeM = sc.cubeM
        /\ cubeInvM = sc.cubeInvM

\* the machines that are not running
FnIdle ==
    /\ fnRay = NewRay(<<0, 0, 0>>, <<0, 0, 0>>, Sentinel)
    /\ fnPc = "idle"
    /\ fnFt4 = <<Sentinel, Sentinel, Sentinel, Sentinel>>
OccIdle == occ = [pc |-> "idle"]
GnIdle == gn = [pc |-> "idle"]
TraceIdle == stack = <<>> /\ ret = <<0, 0, 0>> /\ hist = [pc |-> "idle"]
SetTimeIdle == setLog = <<>>
TickIdle == tick = [pc |-> "idle"]
LightIdle == light = [pc |-> "idle"]
CubeCallIdle == cubeCall = [pc |-> "idle"]
GetCallIdle == getCall = [pc |-> "idle"]
RestIdle ==
    SetTimeIdle /\ TickIdle /\ LightIdle /\ CubeCallIdle /\ GetCallIdle

FnInit ==
    /\ SceneInit
    /\ \E g \in RayGeoms \cup TieGeoms : fnRay = NewRay(g[1], g[2], Sentinel)
    /\ fnPc = "planeX"
    /\ fnFt4 = <<Sentinel, Sentinel, Sentinel, Sentinel>>
    /\ OccIdle /\ GnIdle /\ TraceIdle /\ RestIdle

FnStep(pc, ray) ==
    /\ fnPc = pc
    /\ fnRay' = ray
    /\ fnPc' = FnNext(pc)
    /\ UNCHANGED <<fnFt4, sceneVars, occVars, gnVars, traceVars, restVars>>

FnPlaneX == FnStep("planeX", StepPlaneX(fnRay))
FnPlaneY == FnStep("planeY", StepPlaneY(fnRay))
FnPlaneZ == FnStep("planeZ", StepPlaneZ(fnRay))

FnQuadMask ==
    /\ fnPc = "quadMask"
    /\ fnFt4' = QuadFt4(fnRay)
    /\ fnPc' = "quad1"
    /\ UNCHANGED <<fnRay, sceneVars, occVars, gnVars, traceVars, restVars>>

FnQuadLane ==
    \E i \in 1..4 :
        /\ fnPc = FnSteps[4 + i]
        /\ fnRay' = StepQuadLane(fnRay, fnFt4, i)
        /\ fnPc' = FnNext(fnPc)
        /\ UNCHANGED <<fnFt4, sceneVars, occVars, gnVars, traceVars, restVars>>

FnBall == FnStep("ball", StepBall(fnRay, spherePos))
FnCorner == FnStep("corner", StepCorner(fnRay))
FnCube == FnStep("cube", CubeIntersect(fnRay, cubeInvM))
FnTorus == FnStep("torus", TorusIntersect(fnRay))

FnNextAction ==
    \/ FnPlaneX
    \/ FnPlaneY
    \/ FnPlaneZ
    \/ FnQuadMask
    \/ FnQuadLane
    \/ FnBall
    \/ FnCorner
    \/ FnCube
    \/ FnTorus

SpecFindNearest == FnInit /\ [][FnNextAction]_vars

---------------------------------------------------------------------------
(* The primitives' own Intersect methods *)

\* Plane::Intersect
PlaneIntersect(ray, N, d, idx) ==
    Nearer(ray, Div(-(Dot(ray.O, N) + d), Dot(ray.D, N)), idx)

\* Sphere::Intersect: the near root, then (for an origin inside) the far root
SphereNearFar(ray, b, c, d, idx) ==
    IF d <= 0 THEN ray
    ELSE IF Lt(-b - SqrtF(d), ray.t) /\ Gt(-b - SqrtF(d), 0)
         THEN Hit(ray, -b - SqrtF(d), idx)
    ELSE IF c > 0 THEN ray
    ELSE Nearer(ray, SqrtF(d) - b, idx)
SphereIntersect(ray, pos, r2, idx) ==
    The({SphereNearFar(ray, q[1], q[2], q[3], idx) :
           q \in {<<SphereB(ray, pos), SphereC(ray, pos, r2), SphereD(ray, pos, r2)>>}})

\* mat4::Identity()
Identity == [R |-> << <<One, 0, 0>>, <<0, One, 0>>, <<0, 0, One>> >>, T |-> <<0, 0, 0>>]

\* Quad::Intersect; t = Oy / -Dy, where a zero Dy becomes -0.0f
QuadInside(Ix, Iz, size) ==
    Gt(Ix, -size) /\ Lt(Ix, size) /\ Gt(Iz, -size) /\ Lt(Iz, size)
QuadHitAt(ray, O, D, t, size, idx) ==
    IF /\ Lt(t, ray.t) /\ Gt(t, 0)
       /\ QuadInside(Add(O[1], Mul(t, D[1])), Add(O[3], Mul(t, D[3])), size)
    THEN Hit(ray, t, idx)
    ELSE ray
QuadIntersectAt(ray, O, D, size, idx) ==
    The({QuadHitAt(ray, O, D, t, size, idx) : t \in {QuadTqOf(O[2], D[2])}})
QuadIntersect(ray, invT, size, idx) ==
    The({QuadIntersectAt(ray, od[1], od[2], size, idx) :
           od \in {<<TransformPosition(ray.O, invT), TransformVector(ray.D, invT)>>}})

\* Scene::Scene: plane[0..5] = Plane( idx, normal, dist )
ScenePlanes ==
    << [N |-> <<One, 0, 0>>, d |-> 3000, idx |-> 4],
       [N |-> <<-One, 0, 0>>, d |-> 2990, idx |-> 5],
       [N |-> <<0, One, 0>>, d |-> 1000, idx |-> 6],
       [N |-> <<0, -One, 0>>, d |-> 2000, idx |-> 7],
       [N |-> <<0, 0, One>>, d |-> 3000, idx |-> 8],
       [N |-> <<0, 0, -One>>, d |-> 3990, idx |-> 9] >>

\* Scene::Scene: quad[i] = Quad( 0, 0.5f ): size = s * 0.5f, identity transform
SceneQuadSize == 250

RECURSIVE AllPlanes(_, _)
AllPlanes(ray, i) ==
    IF i > 6 THEN ray
    ELSE AllPlanes(PlaneIntersect(ray, ScenePlanes[i].N, ScenePlanes[i].d,
                                  ScenePlanes[i].idx), i + 1)

RECURSIVE AllQuads(_, _)
AllQuads(ray, i) ==
    IF i > 4 THEN ray
    ELSE AllQuads(QuadIntersect(ray, Identity, SceneQuadSize, 0), i + 1)

\* every primitive of the scene tested with its own Intersect, closer wins;
\* each stage is evaluated before the next one starts
ComposedIntersect(ray, sc) ==
    LET s1 == {AllPlanes(ray, 1)}
        s2 == {AllQuads(r, 1) : r \in s1}
        s3 == {SphereIntersect(r, sc.spherePos, BallR2, 1) : r \in s2}
        s4 == {SphereIntersect(r, CornerPos, CornerR2, 2) : r \in s3}
        s5 == {CubeIntersect(r, sc.cubeInvM) : r \in s4}
        s6 == {TorusIntersect(r) : r \in s5}
    IN  The(s6)

---------------------------------------------------------------------------
(* Claims about FindNearest *)

\* the ray as FindNearest received it
FnRay0 == NewRay(fnRay.O, fnRay.D, Sentinel)

\* the identifiers the step at pc may record
FnStepIds(pc) ==
    CASE pc = "planeX" -> {4, 5}
      [] pc = "planeY" -> {6, 7}
      [] pc = "planeZ" -> {8, 9}
      [] pc \in {"quad1", "quad2", "quad3", "quad4"} -> {0}
      [] pc = "ball" -> {1}
      [] pc = "corner" -> {2}
      [] pc = "cube" -> {3}
      [] pc = "torus" -> {10}
      [] OTHER -> {}

\* C4: every intersection step of FindNearest either leaves the ray
\* unchanged or overwrites ray.t and ray.objIdx together, with a distance
\* that is positive and smaller than the ray.t it replaces and with the
\* identifier of the primitive tested in that step; so ray.t never grows
\* and is always positive
C4_StepsOnlyImprove ==
    /\ [](Gt(fnRay.t, 0))
    /\ [][\/ fnRay' = fnRay
          \/ /\ Gt(fnRay'.t, 0)
             /\ Lt(fnRay'.t, fnRay.t)
             /\ fnRay'.objIdx \in FnStepIds(fnPc)
             /\ fnRay' = Hit(fnRay, fnRay'.t, fnRay'.objIdx)]_vars

\* C4 witness: the corner-sphere step has replaced a wall hit by its own,
\* closer one
C4_Witness ==
    /\ fnPc = "cube"
    /\ fnRay.objIdx = 2
    /\ StepPlaneZ(StepPlaneY(StepPlaneX(FnRay0))).objIdx \in 4..9
    /\ Lt(fnRay.t, StepPlaneZ(StepPlaneY(StepPlaneX(FnRay0))).t)

\* the distances primitive id can offer a ray
FnCandidates(ray, id, sc) ==
    CASE id \in {4, 5} -> {PlaneT(ray, 1, 3000), PlaneT(ray, 1, -2990)}
      [] id \in {6, 7} -> {PlaneT(ray, 2, 1000), PlaneT(ray, 2, -2000)}
      [] id \in {8, 9} -> {PlaneT(ray, 3, 3000), PlaneT(ray, 3, -3990)}
      [] id = 0 -> {QuadTq(ray)}
      [] id = 1 -> {Sub(-SphereB(ray, sc.spherePos),
                        SqrtF(SphereD(ray, sc.spherePos, BallR2)))}
      [] id = 2 -> {Sub(SqrtF(SphereD(ray, CornerPos, CornerR2)),
                        SphereB(ray, CornerPos))}
      [] id = 3 -> {span[i] : span \in {CubeSpan(ray, sc.cubeInvM)}, i \in 1..2}
      [] id = 10 -> {TorusT(TorusRoots(ray))}
      [] OTHER -> {}

\* C5: when FindNearest returns for a ray created with the sentinel
\* distance and no hit, objIdx differs from -1 exactly when ray.t is below
\* the sentinel, and ray.t is then a distance of the primitive objIdx names
C5_HitIdConsistent ==
    fnPc = "done" =>
        /\ (fnRay.objIdx # -1) <=> Lt(fnRay.t, Sentinel)
        /\ fnRay.objIdx # -1 => fnRay.t \in FnCandidates(FnRay0, fnRay.objIdx, CurScene)
        /\ fnRay.objIdx = -1 => fnRay.t = Sentinel

\* C5 witness: FindNearest has returned with a hit on the cube
C5_Witness == fnPc = "done" /\ fnRay.objIdx = 3 /\ Lt(fnRay.t, Sentinel)

\* C8 as stated: FindNearest gives what composing every primitive's own
\* Intersect gives
C8_FindNearestIsComposition ==
    fnPc = "done" =>
        LET c == ComposedIntersect(FnRay0, CurScene)
        IN  fnRay.t = c.t /\ fnRay.objIdx = c.objIdx

---------------------------------------------------------------------------
(* Occlusion tests *)

\* the near root lies in ( 0, ray.t )
NearRootInRange(ray, b, d) ==
    d > 0 /\ Lt(-b - SqrtF(d), ray.t) /\ Gt(-b - SqrtF(d), 0)

\* Sphere::IsOccluded: the near root only
SphereIsOccluded(ray, pos, r2) ==
    \E bd \in {<<SphereB(ray, pos), SphereD(ray, pos, r2)>>} :
        NearRootInRange(ray, bd[1], bd[2])

\* Cube::IsOccluded (SPEEDTRIX): tmax > 0 && tmin < tmax && tmin < ray.t.
\* _mm_rcp_ps is taken as the exact reciprocal; its error is below the
\* resolution of the model's numbers for the rays used.
CubeIsOccluded(ray, invM) ==
    \E span \in {CubeSpan(ray, invM)} :
        Gt(span[2], 0) /\ Lt(span[1], span[2]) /\ Lt(span[1], ray.t)

\* Scene::IsOccluded, the hardcoded ball test
OccBallTest(ray, spos) ==
    \E bd \in {<<SphereB(ray, spos), SphereD(ray, spos, BallR2)>>} :
        NearRootInRange(ray, bd[1], bd[2])

\* Scene::IsOccluded, the four light quads: hit = movemask( hitmask & valmask )
OccQuadTest(ray) == \E i \in 1..4 : QuadMask(ray, i)

\* Torus::IsOccluded.  The single-precision solver looks at one root of each
\* of its two quadratic factors.  Outside the bounding sphere and for a
\* quartic without real roots it returns false; when every root lies in
\* (0, ray.t) it returns true, when none does it returns false; in between
\* the answer depends on which roots the solver looks at, and both answers
\* are kept.
TorusIsOccludedOutcomes(ray) ==
    IF TorusMissesBound(ray) THEN {FALSE}
    ELSE LET InRange(roots) == {t \in roots : t > 0 /\ Lt(t, ray.t)}
         IN  UNION {IF roots = {} THEN {FALSE}
                    ELSE IF InRange(roots) = roots THEN {TRUE}
                    ELSE IF InRange(roots) = {} THEN {FALSE}
                    ELSE BOOLEAN : roots \in {TorusRoots(ray)}}

---------------------------------------------------------------------------
(* Scene::IsOccluded as a machine: one action per test, return on the
   first test that succeeds *)

\* lengths of the shadow rays of the model
OccDistances == {(3 * One) \div 10, One, (5 * One) \div 2, 4 * One, 5 * One}

OccInit ==
    /\ SceneInit
    /\ \E g \in RayGeoms, dist \in OccDistances :
         occ = [pc |-> "cube", ray |-> NewRay(g[1], g[2], dist),
                result |-> FALSE, by |-> "none"]
    /\ FnIdle /\ GnIdle /\ TraceIdle /\ RestIdle

\* where Scene::IsOccluded goes after the test at pc said no
OccNext_StopsAfterQuads(pc) ==
    CASE pc = "cube" -> "ball"
      [] pc = "ball" -> "quads"
      [] OTHER -> "done"

OccNext(pc) ==
    CASE pc = "cube" -> "ball"
      [] pc = "ball" -> "quads"
      [] pc = "quads" -> "torus"
      [] OTHER -> "done"

\* if ( test ) return true; else go on with the next test
OccStep(pc, test) ==
    /\ occ.pc = pc
    /\ occ' = IF test
              THEN [occ EXCEPT !.pc = "done", !.result = TRUE, !.by = pc]
              ELSE [occ EXCEPT !.pc = OccNext(pc)]
    /\ UNCHANGED <<sceneVars, fnVars, gnVars, traceVars, restVars>>

OccCube == OccStep("cube", CubeIsOccluded(occ.ray, cubeInvM))
OccBall == OccStep("ball", OccBallTest(occ.ray, spherePos))
OccQuads == OccStep("quads", OccQuadTest(occ.ray))
OccTorus == \E b \in TorusIsOccludedOutcomes(occ.ray) : OccStep("torus", b)

OccNextAction ==
    \/ OccCube
    \/ OccBall
    \/ OccQuads
    \/ OccTorus

SpecOccluded == OccInit /\ [][OccNextAction]_vars

---------------------------------------------------------------------------
(* Claims about occlusion *)

\* C6 as stated: for the ball, the cube and the light quads, the occlusion
\* test says yes exactly when Intersect on the same ray records a hit on
\* that primitive, origins inside the primitive included
C6_OcclusionAgreesWithIntersect ==
    occ.pc = "cube" =>
        /\ SphereIsOccluded(occ.ray, spherePos, BallR2)
             <=> (SphereIntersect(occ.ray, spherePos, BallR2, 1).objIdx = 1)
        /\ CubeIsOccluded(occ.ray, cubeInvM)
             <=> (CubeIntersect(occ.ray, cubeInvM).objIdx = 3)
        /\ OccQuadTest(occ.ray) <=> (StepQuads(occ.ray).objIdx = 0)

\* the first test of Scene::IsOccluded that accepts the ray
OccFirst(ray, sc) ==
    IF CubeIsOccluded(ray, sc.cubeInvM) THEN "cube"
    ELSE IF OccBallTest(ray, sc.spherePos) THEN "ball"
    ELSE IF OccQuadTest(ray) THEN "quads"
    ELSE "later"

---------------------------------------------------------------------------
(* Normals *)

\* normalize( v ) = v * ( 1 / sqrtf( dot( v, v ) ) ); 0 * inf is NaN
NaN3 == <<NaN, NaN, NaN>>
NormalizeBy(v, len) ==
    IF len = 0 THEN NaN3
    ELSE <<RDiv(v[1] * One, len), RDiv(v[2] * One, len), RDiv(v[3] * One, len)>>
\* a component that is infinite: the length is infinite, its reciprocal 0,
\* the infinite components become NaN and the others 0
NormalizeInf(v) ==
    IF \E i \in 1..3 : IsNaN(v[i]) THEN NaN3
    ELSE [i \in 1..3 |-> IF IsInf(v[i]) THEN NaN ELSE 0]
Normalize(v) ==
    IF \A i \in 1..3 : Fin(v[i])
    THEN NormalizeBy(v, ISqrtNearest(v[1] * v[1] + v[2] * v[2] + v[3] * v[3]))
    ELSE NormalizeInf(v)

\* Ray::IntersectionPoint
IntersectionPoint(ray) == VAdd(ray.O, VScale(ray.t, ray.D))

\* Quad::GetNormal with T = identity: ( -T.cell[1], -T.cell[5], -T.cell[9] )
QuadGetNormal ==
    <<-Identity.R[1][2], -Identity.R[2][2], -Identity.R[3][2]>>

\* Sphere::GetNormal: ( I - pos ) * invr
SphereGetNormal(I, pos, invr) == VScale(invr, VSub(I, pos))

\* invr of the ball ( 1 / 0.6 ) and of the rounded-corner sphere ( 1 / 8 )
BallInvR == 1667
CornerInvR == 125

\* Cube::GetNormal: the face of the box nearest to the point, in world space
CubeFaceDists(objI) ==
    <<Abs(objI[1] - CubeBMin[1]), Abs(objI[1] - CubeBMax[1]),
      Abs(objI[2] - CubeBMin[2]), Abs(objI[2] - CubeBMax[2]),
      Abs(objI[3] - CubeBMin[3]), Abs(objI[3] - CubeBMax[3])>>
CubeFaceNormals ==
    <<<<-One, 0, 0>>, <<One, 0, 0>>, <<0, -One, 0>>, <<0, One, 0>>,
      <<0, 0, -One>>, <<0, 0, One>>>>
\* the first face whose distance no earlier face beats or equals
CubeNearestFace(d) ==
    CHOOSE i \in 1..6 :
        /\ \A j \in 1..6 : d[i] <= d[j]
        /\ \A j \in 1..(i - 1) : d[j] > d[i]
CubeObjNormal(objI) ==
    CubeFaceNormals[The({CubeNearestFace(d) : d \in {CubeFaceDists(objI)}})]
CubeGetNormal(I, M, invM) ==
    TransformVector(
        The({CubeObjNormal(objI) : objI \in {TransformPosition(I, invM)}}), M)

\* torus.T = Translate( -0.25, 0, 2 ) * RotateX( PI / 4 ), torus.invT
TorusTransform == [R |-> RotateX(QuarterPi), T |-> <<-250, 0, 2 * One>>]
TorusInvTransform == FastInvertedTransformNoScale(TorusTransform)

\* Torus::GetNormal
TorusGradient(L, m) ==
    <<Mul(L[1], Sub(m, 63 + 640)), Mul(L[2], Sub(m, 63 + 640)),
      Mul(L[3], Add(m, 640 - 63))>>
TorusObjNormal(L) == The({Normalize(v) : v \in {TorusGradient(L, Dot(L, L))}})
TorusGetNormal(I) ==
    TransformVector(
        The({TorusObjNormal(L) : L \in {TransformPosition(I, TorusInvTransform)}}),
        TorusTransform)

\* a slip that takes the axis from the remainder instead of the quotient
PlaneNormal_AxisByRemainder(objIdx) ==
    [i \in 1..3 |-> IF i = ((objIdx - 4) % 3) + 1
                    THEN One - 2 * One * (objIdx % 2) ELSE 0]

\* the six planes: N[( objIdx - 4 ) / 2] = 1 - 2 * ( objIdx & 1 )
PlaneNormal(objIdx) ==
    [i \in 1..3 |-> IF i = ((objIdx - 4) \div 2) + 1
                    THEN One - 2 * One * (objIdx % 2) ELSE 0]

\* Scene::GetNormal before the facing test
SurfaceNormal(objIdx, I, sc) ==
    IF objIdx = 0 THEN QuadGetNormal
    ELSE IF objIdx = 1 THEN SphereGetNormal(I, sc.spherePos, BallInvR)
    ELSE IF objIdx = 2 THEN SphereGetNormal(I, CornerPos, CornerInvR)
    ELSE IF objIdx = 3 THEN CubeGetNormal(I, sc.cubeM, sc.cubeInvM)
    ELSE IF objIdx = 10 THEN TorusGetNormal(I)
    ELSE PlaneNormal(objIdx)

\* if ( dot( N, wo ) > 0 ) N = -N
FaceForward(N, wo) == IF Gt(Dot(N, wo), 0) THEN VNeg(N) ELSE N

\* Scene::GetNormal
GetNormal(objIdx, I, wo, sc) ==
    IF objIdx = -1 THEN <<0, 0, 0>>
    ELSE The({FaceForward(N, wo) : N \in {SurfaceNormal(objIdx, I, sc)}})

---------------------------------------------------------------------------
(* Scene::GetNormal called at the hit points of the model's rays *)

\* incoming directions: the axes and four oblique unit vectors
GnDirs ==
    AxisDirs \cup {<<577, 577, 577>>, <<-577, -577, -577>>, <<707, 0, -707>>,
                   <<0, -600, 800>>}

GnInit ==
    /\ SceneInit
    /\ \E g \in RayGeoms, wo \in GnDirs, own \in BOOLEAN :
         \E r \in {FindNearest(NewRay(g[1], g[2], Sentinel), CurScene)} :
             gn = [pc |-> "call",
                   objIdx |-> r.objIdx,
                   I |-> IF r.objIdx # -1 THEN IntersectionPoint(r) ELSE Zero3,
                   wo |-> IF own THEN g[2] ELSE wo,
                   N |-> <<0, 0, 0>>]
    /\ FnIdle /\ OccIdle /\ TraceIdle /\ RestIdle

GnCall ==
    /\ gn.pc = "call"
    /\ gn' = [gn EXCEPT !.pc = "done",
                        !.N = GetNormal(gn.objIdx, gn.I, gn.wo, CurScene)]
    /\ UNCHANGED <<sceneVars, fnVars, occVars, traceVars, restVars>>

GnNextAction == GnCall

SpecGetNormal == GnInit /\ [][GnNextAction]_vars

\* C9: for every primitive identifier, every point FindNearest reports for
\* it and every incoming direction, the normal Scene::GetNormal returns
\* satisfies dot( N, wo ) <= 0.  The torus' hit at t = 1e20 (a ray whose
\* quartic has no positive root) gives a normal that is not a number.
C9_NormalFacesIncoming ==
    gn.pc = "done" =>
        /\ ~IsNaN(Dot(gn.N, gn.wo))
        /\ Dot(gn.N, gn.wo) <= 0


---------------------------------------------------------------------------
(* Materials and light *)

\* Scene::GetReflectivity
GetReflectivity(objIdx) ==
    IF objIdx = 1 THEN One ELSE IF objIdx = 6 THEN (3 * One) \div 10 ELSE 0

\* a slip that makes the floor refractive as well
GetRefractivity_FloorToo(objIdx) == IF objIdx \in {3, 6, 10} THEN One ELSE 0

\* Scene::GetRefractivity
GetRefractivity(objIdx) == IF objIdx = 3 \/ objIdx = 10 THEN One ELSE 0

\* the colours a texel of the wall textures (logo, red, blue) may have; the
\* image files are not part of the program text
Texels == {<<0, 0, 0>>, <<One, One, One>>}

\* (int) x for a fixed-point x: truncation towards zero
TruncF(x) == IF x >= 0 THEN x \div One ELSE -((-x) \div One)

\* Plane::GetAlbedo for the floor: the checkerboard with its two aliased tiles
FloorCell(x, own, ix0, iz0) ==
    IF ix0 = 98 /\ iz0 = 98 THEN TruncF(Mul(x, 32010))
    ELSE IF ix0 = 94 /\ iz0 = 98 THEN TruncF(Mul(x, 64010))
    ELSE own
FloorColour(ix, iz) ==
    IF (ix + iz) % 2 = 1 THEN <<One, One, One>> ELSE <<300, 300, 300>>
FloorAlbedoAt(I, ix0, iz0) ==
    FloorColour(FloorCell(I[1], ix0, ix0, iz0), FloorCell(I[3], iz0, ix0, iz0))
FloorAlbedo(I) ==
    FloorAlbedoAt(I, TruncF(2 * I[1] + 96010), TruncF(2 * I[3] + 96010))

\* Scene::GetAlbedo: the albedos a hit on objIdx at I may have
Albedos(objIdx, I) ==
    IF objIdx = -1 THEN {<<0, 0, 0>>}
    ELSE IF objIdx = 0 THEN {<<10 * One, 10 * One, 10 * One>>}
    ELSE IF objIdx \in {1, 2} THEN {<<930, 930, 930>>}
    ELSE IF objIdx \in {3, 10} THEN {<<One, One, One>>}
    ELSE IF objIdx = 6 THEN {FloorAlbedo(I)}
    ELSE IF objIdx \in {4, 5, 9} THEN Texels
    ELSE {<<930, 930, 930>>}

\* component-wise product of two colours, and a colour times a scalar
CMul(a, b) == <<Mul(a[1], b[1]), Mul(a[2], b[2]), Mul(a[3], b[3])>>

\* Scene::GetLightColor
LightColor == <<24 * One, 24 * One, 22 * One>>

\* EPSILON and INVPI
Epsilon == 1
InvPi == 318

\* reflect( D, N ) = D - 2 * dot( D, N ) * N
Reflect(D, N) == VSub(D, VScale(Mul(2 * One, Dot(D, N)), N))

\* length( v )
Length(v) == SqrtF(Dot(v, v))

\* L *= 1 / distance
LightDir(L0, distance) ==
    <<RDiv(L0[1] * One, distance), RDiv(L0[2] * One, distance),
      RDiv(L0[3] * One, distance)>>

\* Renderer::DirectIllumination up to the shadow ray: the ray to test, or
\* "dark" when the surface does not face the light.  GetLightPos returns the
\* origin in the four-lights build.
ShadowFacing(I, L, distance, ndotl) ==
    IF ndotl < Epsilon THEN [dark |-> TRUE, nan |-> FALSE]
    ELSE [dark |-> FALSE, nan |-> FALSE,
          ray |-> NewRay(VAdd(I, VScale(Epsilon, L)), L, distance - 2 * Epsilon),
          distance |-> distance, ndotl |-> ndotl]
ShadowAlong(I, N, L, distance) ==
    The({ShadowFacing(I, L, distance, ndotl) : ndotl \in {Dot(N, L)}})
ShadowTo(I, N, L0, distance) ==
    IF distance = 0 THEN [dark |-> FALSE, nan |-> TRUE]
    ELSE The({ShadowAlong(I, N, L, distance) : L \in {LightDir(L0, distance)}})
ShadowFrom(I, N, L0) ==
    The({ShadowTo(I, N, L0, distance) : distance \in {Length(L0)}})
ShadowRay(I, N) == ShadowFrom(I, N, VSub(Zero3, I))

\* Renderer::DirectIllumination after the shadow ray
Attenuation(distance) == Div(One, Mul(distance, distance))
Irradiance(sh, occluded) ==
    IF occluded THEN Zero3
    ELSE VScale(sh.ndotl, VScale(Attenuation(sh.distance), LightColor))

\* expf( -x ) for x >= 0: the series at x / 16, squared four times
Sq(a) == Mul(a, a)
ExpSeries(y) == One - y + RDiv(Sq(y), 2) - RDiv(Mul(Sq(y), y), 6)
ExpNeg(x) == The({Sq(Sq(Sq(Sq(e)))) : e \in {ExpSeries(RDiv(x, 16))}})

---------------------------------------------------------------------------
(* Renderer::Trace as a machine.  The active calls are the frames of stack,
   the innermost last; a call that returns leaves its value in ret. *)

\* MAXDEPTH
MAXDEPTH == 2

Top == stack[Len(stack)]
Pop == SubSeq(stack, 1, Len(stack) - 1)

\* the frame of a call Trace( ray, depth ) that has not run yet; children
\* counts the calls it has made and weights lists the factors their results
\* were scaled by, apart from the albedo
NewFrame(ray, depth) ==
    [ray |-> ray, depth |-> depth, pc |-> "find", I |-> Zero3, N |-> Zero3,
     albedo |-> Zero3, reflectivity |-> 0, refractivity |-> 0,
     diffuseness |-> 0, Fr |-> One, out |-> Zero3, children |-> 0,
     queried |-> FALSE, weights |-> <<>>]

\* if (ray.objIdx == -1) return 0;
Escaped(ray) == ray.objIdx = -1

\* a slip that lets one more bounce through
DepthExceeded_OneLate(depth) == depth > MAXDEPTH + 1

\* if (depth > MAXDEPTH) return 0;
DepthExceeded(depth) == depth > MAXDEPTH

\* a slip that counts a bounce twice
ChildDepth_Two(depth) == depth + 2

\* Trace( r, depth + 1 )
ChildDepth(depth) == depth + 1

\* Ray r( I + R * EPSILON, R )
ChildRay(I, R) == NewRay(VAdd(I, VScale(Epsilon, R)), R, Sentinel)

\* n1 and n2 by the medium the ray travels in
N1(inside) == IF inside THEN (12 * One) \div 10 ELSE One
N2(inside) == IF inside THEN One ELSE (12 * One) \div 10
Eta(inside) == Div(N1(inside), N2(inside))

\* cosi = dot( -ray.D, N ), cost2 = 1 - eta * eta * ( 1 - cosi * cosi )
Cosi(D, N) == Dot(VNeg(D), N)
Cost2Of(eta, cosi) == Sub(One, Mul(Sq(eta), Sub(One, Sq(cosi))))
Cost2(D, N, inside) == Cost2Of(Eta(inside), Cosi(D, N))

\* R0 = ( a * a ) / ( b * b ) with a = n1 - n2, b = n1 + n2
SchlickR0(n1, n2) == Div(Sq(n1 - n2), Sq(n1 + n2))

\* Fr = R0 + ( 1 - R0 ) * c^5 (Schlick), c = 1 - cosi
FresnelOf(R0, c) == Add(R0, Mul(One - R0, Mul(Sq(Sq(c)), c)))
Fresnel(D, N, inside) ==
    FresnelOf(SchlickR0(N1(inside), N2(inside)), Sub(One, Cosi(D, N)))

\* T = eta * ray.D + ( eta * cosi - sqrtf( fabs( cost2 ) ) ) * N
RefractDir(D, N, inside) ==
    VAdd(VScale(Eta(inside), D),
         VScale(Sub(Mul(Eta(inside), Cosi(D, N)),
                    SqrtF(Abs(Cost2(D, N, inside)))), N))

\* a slip that gives the dielectric's reflection the full weight
ReflectWeight_Full(Fr) == One

\* albedo * Fr * Trace( r, depth + 1 ): the reflected ray's share
ReflectWeight(Fr) == Fr

\* albedo * (1 - Fr) * Trace( t, depth + 1 ): the refracted ray's share
RefractWeight(Fr) == One - Fr

\* Scene::IsOccluded as a function: the answers it may give
IsOccludedOutcomes(ray, sc) ==
    IF OccFirst(ray, sc) # "later" THEN {TRUE} ELSE TorusIsOccludedOutcomes(ray)

\* medium_scale: expf( absorption * -ray.t ) with absorption ( 0.5, 0, 0.5 )
MediumScaleOf(e) == <<e, One, e>>
MediumScale(ray) ==
    IF ray.inside
    THEN The({MediumScaleOf(e) : e \in {ExpNeg(Mul(One \div 2, ray.t))}})
    ELSE <<One, One, One>>

\* a slip that gives an escaped ray the colour of a sky
MissRadiance_Sky == <<One, One, One>>

\* return 0 for a ray that left the scene
MissRadiance == Zero3

\* primary rays: camera.GetPrimaryRay; the camera is free to be anywhere
TraceInit ==
    /\ SceneInit
    /\ \E g \in RayGeoms :
         stack = <<NewFrame(NewRay(g[1], g[2], Sentinel), 0)>>
    /\ ret = Zero3
    /\ hist = [pc |-> "run", shaded |-> {},
               last |-> [kind |-> "none", depth |-> 0, objIdx |-> -1,
                         children |-> 0, queried |-> FALSE]]
    /\ FnIdle /\ OccIdle /\ GnIdle /\ RestIdle

TraceFrame == <<sceneVars, fnVars, occVars, gnVars, restVars>>

\* the top frame becomes f
SetTop(f) ==
    /\ stack' = [stack EXCEPT ![Len(stack)] = f]
    /\ UNCHANGED <<ret, hist, TraceFrame>>

\* the top frame becomes f and calls Trace( ray, depth + 1 )
Call(f, ray) ==
    /\ stack' = Append([stack EXCEPT ![Len(stack)] =
                           [f EXCEPT !.children = f.children + 1]],
                       NewFrame(ray, ChildDepth(f.depth)))
    /\ UNCHANGED <<ret, hist, TraceFrame>>

\* the top frame returns value
Return(kind, value) ==
    /\ stack' = Pop
    /\ ret' = value
    /\ hist' = [hist EXCEPT
                  !.pc = IF Len(stack) = 1 THEN "done" ELSE "run",
                  !.last = [kind |-> kind, depth |-> Top.depth,
                            objIdx |-> Top.ray.objIdx,
                            children |-> Top.children,
                            queried |-> Top.queried]]
    /\ UNCHANGED TraceFrame

\* scene.FindNearest( ray )
TraceFind ==
    /\ stack # <<>> /\ Top.pc = "find"
    /\ \E r \in {FindNearest(Top.ray, CurScene)} :
         SetTop([Top EXCEPT !.ray = r, !.pc = "check"])

\* if (ray.objIdx == -1) return 0;
TraceMiss ==
    /\ stack # <<>> /\ Top.pc = "check"
    /\ Escaped(Top.ray)
    /\ Return("miss", MissRadiance)

\* if (depth > MAXDEPTH) return 0;
TraceCutoff ==
    /\ stack # <<>> /\ Top.pc = "check"
    /\ ~Escaped(Top.ray)
    /\ DepthExceeded(Top.depth)
    /\ Return("cutoff", Zero3)

\* gather shading data: I, N, albedo, reflectivity, refractivity, diffuseness
TraceGather ==
    /\ stack # <<>> /\ Top.pc = "check"
    /\ ~Escaped(Top.ray)
    /\ ~DepthExceeded(Top.depth)
    /\ \E I \in {IntersectionPoint(Top.ray)} :
       \E albedo \in Albedos(Top.ray.objIdx, I) :
         /\ stack' = [stack EXCEPT ![Len(stack)] =
              [Top EXCEPT
                 !.I = I,
                 !.N = GetNormal(Top.ray.objIdx, I, Top.ray.D, CurScene),
                 !.albedo = albedo,
                 !.reflectivity = GetReflectivity(Top.ray.objIdx),
                 !.refractivity = GetRefractivity(Top.ray.objIdx),
                 !.diffuseness = One - (GetReflectivity(Top.ray.objIdx)
                                        + GetRefractivity(Top.ray.objIdx)),
                 !.queried = TRUE,
                 !.pc = "reflect"]]
         /\ hist' = [hist EXCEPT !.shaded = @ \cup {Top.ray.objIdx}]
         /\ UNCHANGED <<ret, TraceFrame>>

\* if (reflectivity > 0) ... Trace( r, depth + 1 )
TraceReflect ==
    /\ stack # <<>> /\ Top.pc = "reflect"
    /\ IF Top.reflectivity > 0
       THEN Call([Top EXCEPT !.pc = "reflectRet"],
                 ChildRay(Top.I, Reflect(Top.ray.D, Top.N)))
       ELSE SetTop([Top EXCEPT !.pc = "refract"])

\* out_radiance += reflectivity * albedo * Trace( r, depth + 1 )
TraceReflectRet ==
    /\ stack # <<>> /\ Top.pc = "reflectRet"
    /\ SetTop([Top EXCEPT
                 !.out = VAdd(@, VScale(Top.reflectivity, CMul(Top.albedo, ret))),
                 !.weights = Append(@, Top.reflectivity),
                 !.pc = "refract"])

\* if (refractivity > 0): Fr, and the refracted ray when cost2 > 0
TraceRefract ==
    /\ stack # <<>> /\ Top.pc = "refract"
    /\ IF Top.refractivity > 0
       THEN IF Gt(Cost2(Top.ray.D, Top.N, Top.ray.inside), 0)
            THEN Call([Top EXCEPT
                         !.Fr = Fresnel(Top.ray.D, Top.N, Top.ray.inside),
                         !.pc = "refractRet"],
                      [ChildRay(Top.I, RefractDir(Top.ray.D, Top.N, Top.ray.inside))
                         EXCEPT !.inside = ~Top.ray.inside])
            ELSE SetTop([Top EXCEPT !.Fr = One, !.pc = "fresnel"])
       ELSE SetTop([Top EXCEPT !.pc = "diffuse"])

\* out_radiance += albedo * (1 - Fr) * Trace( t, depth + 1 )
TraceRefractRet ==
    /\ stack # <<>> /\ Top.pc = "refractRet"
    /\ SetTop([Top EXCEPT
                 !.out = VAdd(@, VScale(RefractWeight(Top.Fr), CMul(Top.albedo, ret))),
                 !.weights = Append(@, RefractWeight(Top.Fr)),
                 !.pc = "fresnel"])

\* ... Trace( r, depth + 1 ) for the reflected ray of the dielectric
TraceFresnel ==
    /\ stack # <<>> /\ Top.pc = "fresnel"
    /\ Call([Top EXCEPT !.pc = "fresnelRet"],
            ChildRay(Top.I, Reflect(Top.ray.D, Top.N)))

\* out_radiance += albedo * Fr * Trace( r, depth + 1 )
TraceFresnelRet ==
    /\ stack # <<>> /\ Top.pc = "fresnelRet"
    /\ SetTop([Top EXCEPT
                 !.out = VAdd(@, VScale(ReflectWeight(Top.Fr), CMul(Top.albedo, ret))),
                 !.weights = Append(@, ReflectWeight(Top.Fr)),
                 !.pc = "diffuse"])

\* if (diffuseness > 0): direct illumination, ambient, Lambert brdf
TraceDiffuse ==
    /\ stack # <<>> /\ Top.pc = "diffuse"
    /\ IF Top.diffuseness > 0
       THEN \E sh \in {ShadowRay(Top.I, Top.N)} :
            \E irradiance \in
                 IF sh.nan THEN {<<NaN, NaN, NaN>>}
                 ELSE IF sh.dark THEN {Zero3}
                 ELSE {Irradiance(sh, o) : o \in IsOccludedOutcomes(sh.ray, CurScene)} :
              SetTop([Top EXCEPT
                 !.out = VAdd(@, VScale(Top.diffuseness,
                                 CMul(VScale(InvPi, Top.albedo),
                                      VAdd(irradiance, <<200, 200, 200>>)))),
                 !.pc = "return"])
       ELSE SetTop([Top EXCEPT !.pc = "return"])

\* return medium_scale * out_radiance
TraceReturn ==
    /\ stack # <<>> /\ Top.pc = "return"
    /\ Return("shaded", CMul(MediumScale(Top.ray), Top.out))

Next ==
    \/ TraceFind
    \/ TraceMiss
    \/ TraceCutoff
    \/ TraceGather
    \/ TraceReflect
    \/ TraceReflectRet
    \/ TraceRefract
    \/ TraceRefractRet
    \/ TraceFresnel
    \/ TraceFresnelRet
    \/ TraceDiffuse
    \/ TraceReturn

Spec == TraceInit /\ [][Next]_vars

---------------------------------------------------------------------------
(* Claims about Trace *)

\* C1: Trace on a ray for which FindNearest records no hit returns exactly
\* zero radiance, at every depth, and makes no recursive Trace call and no
\* shading query: a call whose ray has no hit never gets past the first
\* test, and when it has returned, the value returned is zero
C1_EscapedReturnsZero ==
    /\ \A i \in DOMAIN stack :
         (stack[i].pc # "find" /\ Escaped(stack[i].ray)) =>
             /\ stack[i].pc = "check"
             /\ stack[i].children = 0
             /\ ~stack[i].queried
    /\ (hist.last.kind # "none" /\ hist.last.objIdx = -1) =>
         /\ hist.last.kind = "miss"
         /\ ret = Zero3
         /\ hist.last.children = 0
         /\ ~hist.last.queried

\* C1 witness: a call whose ray left the scene has returned
C1_Witness ==
    /\ hist.last.kind = "miss"
    /\ hist.last.objIdx = -1
    /\ hist.pc = "done"

\* C2: Trace called with depth MAXDEPTH + 1 returns exactly zero radiance
\* whatever the ray hits, and spawns no further ray
C2_CutoffReturnsZero ==
    /\ \A i \in DOMAIN stack :
         stack[i].depth = MAXDEPTH + 1 =>
             /\ stack[i].pc \in {"find", "check"}
             /\ stack[i].children = 0
    /\ (hist.last.kind # "none" /\ hist.last.depth = MAXDEPTH + 1) =>
         /\ ret = Zero3
         /\ hist.last.children = 0

\* C2 witness: a call at depth MAXDEPTH + 1 whose ray hit a refractive
\* primitive has returned at the depth test
C2_Witness ==
    /\ hist.last.kind = "cutoff"
    /\ hist.last.depth = MAXDEPTH + 1
    /\ GetRefractivity(hist.last.objIdx) > 0

\* the steps a call at pc has left before it returns, its children's steps
\* not counted, and the children it may still call
TraceOwnSteps(pc) ==
    CASE pc = "find" -> 10
      [] pc = "check" -> 9
      [] pc = "reflect" -> 8
      [] pc = "reflectRet" -> 7
      [] pc = "refract" -> 6
      [] pc = "refractRet" -> 5
      [] pc = "fresnel" -> 4
      [] pc = "fresnelRet" -> 3
      [] pc = "diffuse" -> 2
      [] pc = "return" -> 1
TraceCallsLeft(pc) ==
    CASE pc \in {"find", "check", "reflect"} -> 3
      [] pc \in {"reflectRet", "refract"} -> 2
      [] pc \in {"refractRet", "fresnel"} -> 1
      [] OTHER -> 0

\* the most steps a call at depth d takes, its children's included
RECURSIVE TraceWork(_)
TraceWork(d) ==
    IF d > MAXDEPTH + 1 THEN 0
    ELSE TraceOwnSteps("find") + TraceCallsLeft("find") * TraceWork(d + 1)

\* the most steps the active calls take before the first of them returns
RECURSIVE TraceRank(_)
TraceRank(s) ==
    IF s = <<>> THEN 0
    ELSE TraceOwnSteps(Head(s).pc)
         + TraceCallsLeft(Head(s).pc) * TraceWork(Head(s).depth + 1)
         + TraceRank(Tail(s))

\* C3: every Trace call started at depth 0 terminates; each recursive call
\* has a depth exactly one more than its caller's and no call has a depth
\* above MAXDEPTH + 1, whatever the materials hit.  Termination: the calls
\* end exactly when the first one has returned, and every step of Trace
\* lowers the bound TraceRank on the steps that are left
C3_TraceTerminates ==
    /\ [](/\ \A i \in DOMAIN stack :
               stack[i].depth = i - 1 /\ stack[i].depth <= MAXDEPTH + 1
          /\ (stack = <<>>) <=> (hist.pc = "done"))
    /\ [][TraceRank(stack') < TraceRank(stack)]_vars

\* C3 witness: the recursion has reached depth MAXDEPTH + 1 through
\* reflective or refractive hits only
C3_Witness ==
    /\ Len(stack) = MAXDEPTH + 2
    /\ Top.depth = MAXDEPTH + 1
    /\ \A i \in 1..(Len(stack) - 1) :
         stack[i].reflectivity > 0 \/ stack[i].refractivity > 0

\* C10: for every primitive identifier 0..10, at every time, reflectivity +
\* refractivity <= 1, so diffuseness = 1 - reflectivity - refractivity is
\* never negative, and no identifier is both reflective and refractive
C10_MaterialsPartition ==
    /\ \A id \in 0..10 :
         /\ GetReflectivity(id) + GetRefractivity(id) <= One
         /\ ~(GetReflectivity(id) > 0 /\ GetRefractivity(id) > 0)
    /\ \A i \in DOMAIN stack :
         stack[i].queried =>
             /\ stack[i].diffuseness >= 0
             /\ stack[i].diffuseness
                  = One - stack[i].reflectivity - stack[i].refractivity
             /\ ~(stack[i].reflectivity > 0 /\ stack[i].refractivity > 0)

\* C10 witness: Trace has gathered the material of the floor, which is
\* partly reflective and partly diffuse
C10_Witness ==
    /\ stack # <<>>
    /\ Top.queried
    /\ Top.ray.objIdx = 6
    /\ Top.reflectivity > 0
    /\ Top.diffuseness > 0
    /\ animTime > 0

---------------------------------------------------------------------------
(* Scene::SetTime called again and again on the scene Scene::Scene built *)

\* Scene::Scene ends with SetTime( 0 )
SetTimeInit ==
    /\ \E sc \in {SceneAt(0)} :
         /\ animTime = sc.animTime
         /\ spherePos = sc.spherePos
         /\ cubeM = sc.cubeM
         /\ cubeInvM = sc.cubeInvM
    /\ setLog = <<>>
    /\ FnIdle /\ OccIdle /\ GnIdle /\ TraceIdle
    /\ TickIdle /\ LightIdle /\ CubeCallIdle /\ GetCallIdle

\* scene.SetTime( t ) with any of the times, in any order
SetTimeCall ==
    /\ Len(setLog) < MaxSetTimeCalls
    /\ \E t \in Times :
         /\ SetTime(t)
         /\ setLog' = Append(setLog, t)
    /\ UNCHANGED <<fnVars, occVars, gnVars, traceVars, tick, light, cubeCall,
                   getCall>>

SetTimeNextAction == SetTimeCall

SpecSetTime == SetTimeInit /\ [][SetTimeNextAction]_vars

\* C11: SetTime is a pure function of its argument.  After any sequence of
\* SetTime calls ending with SetTime( t ) the animated state (animTime, cube
\* transform and inverse, ball position) is the state a single SetTime( t )
\* leaves on the constructed scene, and a call that repeats the argument of
\* the call before it changes nothing
C11_SetTimeIsPure ==
    /\ [](setLog # <<>> =>
            CurScene = SetTimeFrom(SceneAt(0), setLog[Len(setLog)]))
    /\ [][(setLog # <<>> /\ setLog' # setLog
            /\ setLog'[Len(setLog')] = setLog[Len(setLog)])
           => UNCHANGED sceneVars]_vars

\* C11 witness: a later time, then an earlier one, then the same again
C11_Witness ==
    /\ Len(setLog) >= 3
    /\ setLog[1] > setLog[2]
    /\ setLog[2] = setLog[3]
    /\ setLog[2] > 0
    /\ animTime = setLog[Len(setLog)]
    /\ cubeM = CubeMAt(animTime)

---------------------------------------------------------------------------
(* Renderer::Tick as a machine.  One frame: SetTime (when animating), the
   parallel loop over the scanlines (schedule(dynamic): a thread that has
   nothing to do takes the next scanline not yet handed out), the barrier
   that ends the loop, the performance report, camera.HandleInput.  Every
   store into accumulator and into screen->pixels is a step of its own. *)

Threads == 1..NumThreads
Lines == 0..(SCRHEIGHT - 1)
Columns == 0..(SCRWIDTH - 1)

\* a slip that leaves out the stride of a scanline
AccIndex_NoStride(x, y) == x + y

\* accumulator[x + y * SCRWIDTH], screen->pixels[dest + x] with dest = y * SCRWIDTH
AccIndex(x, y) == x + y * SCRWIDTH

Slots == {AccIndex(x, y) : x \in Columns, y \in Lines}

\* Trace( camera.GetPrimaryRay( x, y ) ): the radiance (one channel) of pixel
\* (x, y); it is decided by the camera pose, the animated scene and the pixel
PrimaryRadiance(cam, t, x, y) == ((cam + t \div TimeStep + x + 2 * y) % 3) * 600

\* RGBF32_to_RGB8 of one channel: scaled to 0..255 and clamped
RGBF32_to_RGB8(v) == IF (256 * v) \div One > 255 THEN 255 ELSE (256 * v) \div One

\* a slip that blends the new radiance with what the slot held
AccStore_Blend(old, new) == (old + new) \div 2

\* accumulator[...] = float4( Trace( ... ), 0 ): the slot is overwritten
AccStore(old, new) == new

\* a slip that lets the loop end when the last scanline has been handed out
LoopDone_NoBarrier(next, thr) == next = SCRHEIGHT

\* the parallel loop ends when every scanline has been handed out and every
\* thread has arrived at the barrier at its end
LoopDone(next, thr) ==
    next = SCRHEIGHT /\ \A th \in Threads : thr[th].pc = "idle"

IdleThread == [pc |-> "idle", y |-> 0, x |-> 0]

\* Renderer::Init (the accumulator is cleared) and Scene::Scene
TickInit ==
    /\ \E sc \in {SceneAt(0)} :
         /\ animTime = sc.animTime
         /\ spherePos = sc.spherePos
         /\ cubeM = sc.cubeM
         /\ cubeInvM = sc.cubeInvM
    /\ \E a \in BOOLEAN :
         tick = [pc |-> "start", frame |-> 1, animating |-> a, animIdx |-> 0,
                 cam |-> 0, camUsed |-> 0, next |-> 0, steps |-> 0,
                 thr |-> [th \in Threads |-> IdleThread],
                 acc |-> [i \in Slots |-> 0],
                 pix |-> [i \in Slots |-> 0],
                 owner |-> [y \in Lines |-> {}],
                 finished |-> {},
                 accBy |-> [i \in Slots |-> {}],
                 pixBy |-> [i \in Slots |-> {}],
                 accWrites |-> [i \in Slots |-> 0],
                 accFrame |-> [i \in Slots |-> 0],
                 pixFrame |-> [i \in Slots |-> 0]]
    /\ FnIdle /\ OccIdle /\ GnIdle /\ TraceIdle
    /\ SetTimeIdle /\ LightIdle /\ CubeCallIdle /\ GetCallIdle

TickRest ==
    <<fnVars, occVars, gnVars, traceVars, setLog, light, cubeCall, getCall>>

\* if (animating) scene.SetTime( anim_time += deltaTime * 0.002f ); the
\* frame took no time or one TimeStep
TickSetTime ==
    /\ tick.pc = "start"
    /\ IF tick.animating
       THEN \E k \in {tick.animIdx, tick.animIdx + 1} :
              /\ k <= MaxTimeIdx
              /\ SetTime(k * TimeStep)
              /\ tick' = [tick EXCEPT !.pc = "parallel", !.animIdx = k,
                                      !.camUsed = tick.cam, !.steps = @ + 1]
       ELSE /\ tick' = [tick EXCEPT !.pc = "parallel", !.camUsed = tick.cam,
                                      !.steps = @ + 1]
            /\ UNCHANGED sceneVars
    /\ UNCHANGED TickRest

\* schedule(dynamic): an idle thread takes the next scanline
ThreadClaim ==
    \E th \in Threads :
        /\ tick.pc = "parallel"
        /\ tick.thr[th].pc = "idle"
        /\ tick.next < SCRHEIGHT
        /\ tick' = [tick EXCEPT
                      !.thr[th] = [pc |-> "trace", y |-> tick.next, x |-> 0],
                      !.owner[tick.next] = @ \cup {th},
                      !.next = @ + 1,
                      !.steps = @ + 1]
        /\ UNCHANGED <<sceneVars, TickRest>>

\* accumulator[x + y * SCRWIDTH] = float4( Trace( camera.GetPrimaryRay( x, y ) ), 0 )
ThreadTrace ==
    \E th \in Threads :
    \E me \in {tick.thr[th]} :
    \E i \in {AccIndex(me.x, me.y)} :
        /\ tick.pc = "parallel"
        /\ me.pc = "trace"
        /\ tick' = [tick EXCEPT
                      !.acc[i] = AccStore(@, PrimaryRadiance(tick.cam, animTime,
                                                             me.x, me.y)),
                      !.accBy[i] = @ \cup {th},
                      !.accWrites[i] = @ + 1,
                      !.accFrame[i] = tick.frame,
                      !.steps = @ + 1,
                      !.thr[th] = IF me.x + 1 < SCRWIDTH
                                  THEN [me EXCEPT !.x = @ + 1]
                                  ELSE [me EXCEPT !.pc = "convert", !.x = 0]]
        /\ UNCHANGED <<sceneVars, TickRest>>

\* screen->pixels[dest + x] = RGBF32_to_RGB8( &accumulator[x + y * SCRWIDTH] )
ThreadConvert ==
    \E th \in Threads :
    \E me \in {tick.thr[th]} :
    \E i \in {AccIndex(me.x, me.y)} :
        /\ tick.pc = "parallel"
        /\ me.pc = "convert"
        /\ tick' = [tick EXCEPT
                      !.pix[i] = RGBF32_to_RGB8(tick.acc[i]),
                      !.pixBy[i] = @ \cup {th},
                      !.pixFrame[i] = tick.accFrame[i],
                      !.steps = @ + 1,
                      !.finished = IF me.x + 1 < SCRWIDTH THEN @ ELSE @ \cup {me.y},
                      !.thr[th] = IF me.x + 1 < SCRWIDTH
                                  THEN [me EXCEPT !.x = @ + 1]
                                  ELSE IdleThread]
        /\ UNCHANGED <<sceneVars, TickRest>>

\* the end of the parallel loop, then the performance report
TickJoin ==
    /\ tick.pc = "parallel"
    /\ LoopDone(tick.next, tick.thr)
    /\ tick' = [tick EXCEPT !.pc = "input", !.steps = @ + 1]
    /\ UNCHANGED <<sceneVars, TickRest>>

\* camera.HandleInput( deltaTime ): the camera stays or moves; Tick returns
TickHandleInput ==
    /\ tick.pc = "input"
    /\ \E c \in {0, 1} : tick' = [tick EXCEPT !.pc = "done", !.cam = c, !.steps = @ + 1]
    /\ UNCHANGED <<sceneVars, TickRest>>

\* the application calls Tick again; Renderer::UI may have switched animating
TickAgain ==
    /\ tick.pc = "done"
    /\ tick.frame < MaxFrames
    /\ \E a \in BOOLEAN :
         tick' = [tick EXCEPT
                    !.pc = "start", !.frame = @ + 1, !.animating = a,
                    !.next = 0, !.steps = 0,
                    !.owner = [y \in Lines |-> {}],
                    !.finished = {},
                    !.accBy = [i \in Slots |-> {}],
                    !.pixBy = [i \in Slots |-> {}],
                    !.accWrites = [i \in Slots |-> 0]]
    /\ UNCHANGED <<sceneVars, TickRest>>

TickNext ==
    \/ TickSetTime
    \/ ThreadClaim
    \/ ThreadTrace
    \/ ThreadConvert
    \/ TickJoin
    \/ TickHandleInput
    \/ TickAgain

SpecTick == TickInit /\ [][TickNext]_vars

\* C12: within one frame, whatever thread takes whatever scanline and
\* however the threads interleave, each scanline is processed by exactly one
\* thread, the accumulator slot and the display pixel of (x, y) are written
\* only by the thread processing scanline y, and no slot is written by two
\* threads
C12_OneWriterPerSlot ==
    /\ \A y \in Lines : Cardinality(tick.owner[y]) <= 1
    /\ \A y \in Lines : y \in tick.finished => Cardinality(tick.owner[y]) = 1
    /\ tick.pc \in {"input", "done"} => tick.finished = Lines
    /\ \A x \in Columns, y \in Lines :
         /\ tick.accBy[AccIndex(x, y)] \subseteq tick.owner[y]
         /\ tick.pixBy[AccIndex(x, y)] \subseteq tick.owner[y]
    /\ \A i \in Slots : Cardinality(tick.accBy[i] \cup tick.pixBy[i]) <= 1

\* C12 witness: two threads are inside two different scanlines at once, and
\* each has stored into the accumulator
C12_Witness ==
    /\ tick.pc = "parallel"
    /\ tick.thr[1].pc = "convert"
    /\ tick.thr[2].pc = "trace"
    /\ tick.thr[2].x > 0
    /\ tick.thr[1].y # tick.thr[2].y
    /\ tick.accBy[AccIndex(0, tick.thr[1].y)] = {1}
    /\ tick.accBy[AccIndex(0, tick.thr[2].y)] = {2}

\* a scanline of this frame has been handed out and is not finished
ScanlineInProgress ==
    \E y \in Lines : tick.owner[y] # {} /\ y \notin tick.finished

\* C13: in every frame SetTime is over before any scanline thread starts;
\* neither the scene state (animTime, cube transform, ball position) nor the
\* camera is written while a scanline is being traced; the camera input is
\* handled only when all the scanlines have finished
C13_SceneFixedWhileTracing ==
    [][/\ (TickSetTime \/ sceneVars' # sceneVars) =>
            /\ \A y \in Lines : tick.owner[y] = {} /\ tick'.owner[y] = {}
            /\ \A th \in Threads : tick.thr[th].pc = "idle"
       /\ (TickHandleInput \/ tick'.cam # tick.cam) =>
            /\ tick.finished = Lines
            /\ \A th \in Threads : tick.thr[th].pc = "idle"
       /\ ScanlineInProgress =>
            /\ sceneVars' = sceneVars
            /\ tick'.cam = tick.cam
            /\ tick'.animIdx = tick.animIdx]_vars

\* C13 witness: the second frame, animated and seen from a camera that has
\* moved, with scanlines being traced
C13_Witness ==
    /\ tick.frame = 2
    /\ animTime > 0
    /\ tick.cam = 1
    /\ ScanlineInProgress
    /\ \E th \in Threads : tick.thr[th].pc = "trace"

\* the steps a thread inside a scanline still has to take
ThreadStepsLeft(me) ==
    IF me.pc = "trace" THEN 2 * SCRWIDTH - me.x
    ELSE IF me.pc = "convert" THEN SCRWIDTH - me.x
    ELSE 0

RECURSIVE ThreadsStepsLeft(_, _)
ThreadsStepsLeft(thr, n) ==
    IF n = 0 THEN 0 ELSE ThreadStepsLeft(thr[n]) + ThreadsStepsLeft(thr, n - 1)

\* the steps Tick takes for one frame, and those a frame has left
FrameSteps == 3 + SCRHEIGHT * (1 + 2 * SCRWIDTH)

FrameStepsLeft(tk) ==
    CASE tk.pc = "start" -> FrameSteps
      [] tk.pc = "parallel" ->
           2 + (SCRHEIGHT - tk.next) * (1 + 2 * SCRWIDTH)
             + ThreadsStepsLeft(tk.thr, NumThreads)
      [] tk.pc = "input" -> 1
      [] OTHER -> 0

\* C14: every frame runs to completion, and when Tick returns every
\* accumulator slot (x, y) has been overwritten exactly once, with the Trace
\* result of this frame's primary ray for (x, y), and every display pixel is
\* the 8-bit conversion of the accumulator value written in this frame.
\* Completion: SetTime has no precondition, a frame that is past it and has
\* not returned can always take a step, and the steps taken and the steps
\* left always add up to FrameSteps
C14_FrameCompletes ==
    /\ tick.pc = "done" =>
         \A x \in Columns, y \in Lines :
             \E i \in {AccIndex(x, y)} :
                 /\ tick.accWrites[i] = 1
                 /\ tick.accFrame[i] = tick.frame
                 /\ tick.acc[i] = PrimaryRadiance(tick.camUsed, animTime, x, y)
                 /\ tick.pix[i] = RGBF32_to_RGB8(tick.acc[i])
                 /\ tick.pixFrame[i] = tick.frame
    /\ tick.pc \in {"parallel", "input"} =>
         ENABLED (ThreadClaim \/ ThreadTrace \/ ThreadConvert \/ TickJoin
                  \/ TickHandleInput)
    /\ tick.steps + FrameStepsLeft(tick) = FrameSteps

\* C14 witness: the second frame has returned; it differs from the first,
\* and one of its pixels is clamped
C14_Witness ==
    /\ tick.pc = "done"
    /\ tick.frame = 2
    /\ tick.animIdx > 0
    /\ \E i \in Slots : tick.acc[i] > One /\ tick.pix[i] = 255
    /\ \E i \in Slots : tick.acc[i] = 0

---------------------------------------------------------------------------
(* Scene::RandomPointOnLight( r0, r1 ) with four lights *)

\* uint lightIdx = (uint)( r0 * 4 )
LightIdx(r0) == TruncF(Mul(r0, 4 * One))

\* float stratum = lightIdx * 0.25f
Stratum(lightIdx) == lightIdx * (One \div 4)

\* float r2 = ( r0 - stratum ) / ( 1 - stratum )
RenormR0(r0, stratum) == Div(Sub(r0, stratum), Sub(One, stratum))

\* corner1 + r2 * ( corner2 - corner1 ) + r1 * ( corner3 - corner1 ), the
\* corners of the selected quad (all four quads are Quad( 0, 0.5f ))
LightPointOf(c1, c2, c3, r2, r1) ==
    VAdd(VAdd(c1, VScale(r2, VSub(c2, c1))), VScale(r1, VSub(c3, c1)))
LightPoint(size, T, r2, r1) ==
    LightPointOf(TransformPosition(<<-size, 0, -size>>, T),
                 TransformPosition(<<size, 0, -size>>, T),
                 TransformPosition(<<-size, 0, size>>, T), r2, r1)

\* the random numbers: multiples of 1 / LightSamples in [0, 1), the largest
\* number below each bucket's end, and the largest number below 1
LightRandoms ==
    {(k * One) \div LightSamples : k \in 0..(LightSamples - 1)}
    \cup {249, 499, 749, 999}

LightInit ==
    /\ SceneInit
    /\ \E r0 \in LightRandoms, r1 \in {0, 500, 999} :
         light = [pc |-> "call", r0 |-> r0, r1 |-> r1, lightIdx |-> 0,
                  r2 |-> 0, P |-> Zero3]
    /\ FnIdle /\ OccIdle /\ GnIdle /\ TraceIdle
    /\ SetTimeIdle /\ TickIdle /\ CubeCallIdle /\ GetCallIdle

RandomPointOnLight ==
    /\ light.pc = "call"
    /\ \E idx \in {LightIdx(light.r0)} :
       \E r2 \in {RenormR0(light.r0, Stratum(idx))} :
         light' = [light EXCEPT
                     !.pc = "done", !.lightIdx = idx, !.r2 = r2,
                     !.P = LightPoint(SceneQuadSize, Identity, r2, light.r1)]
    /\ UNCHANGED <<sceneVars, fnVars, occVars, gnVars, traceVars, setLog, tick,
                   cubeCall, getCall>>

LightNextAction == RandomPointOnLight

SpecLight == LightInit /\ [][LightNextAction]_vars

\* C15 as stated: for r0 in [0, 1) the selected quad is floor( 4 * r0 ), one
\* of 0..3, and the number reused inside the quad is the remainder of r0 in
\* its bucket renormalised to [0, 1): 4 * r0 - lightIdx
C15_StratifiedLightSample ==
    light.pc = "done" =>
        /\ light.lightIdx \in 0..3
        /\ light.lightIdx * One <= 4 * light.r0
        /\ 4 * light.r0 < (light.lightIdx + 1) * One
        /\ light.r2 = 4 * light.r0 - light.lightIdx * One

---------------------------------------------------------------------------
(* Cube::Intersect: the SSE build (SPEEDTRIX) and the scalar build, given the
   same ray and the same cube *)

\* tmin = ( b[sign].x - O.x ) * rDx, tmax = ( b[1 - sign].x - O.x ) * rDx,
\* with sign = D.x < 0; likewise for y and z
CubeScalarSlab(o, d, i) ==
    IF Lt(d[i], 0)
    THEN <<SlabT(CubeBMax[i] - o[i], d[i]), SlabT(CubeBMin[i] - o[i], d[i])>>
    ELSE <<SlabT(CubeBMin[i] - o[i], d[i]), SlabT(CubeBMax[i] - o[i], d[i])>>

\* if ( tmin > 0 ) { if ( tmin < ray.t ) ... } else if ( tmax > 0 ) { ... }
CubeScalarHit(ray, tmin, tmax) ==
    IF Gt(tmin, 0)
    THEN (IF Lt(tmin, ray.t) THEN Hit(ray, tmin, 3) ELSE ray)
    ELSE IF Gt(tmax, 0)
         THEN (IF Lt(tmax, ray.t) THEN Hit(ray, tmax, 3) ELSE ray)
         ELSE ray

\* if ( tmin > tzmax || tzmin > tmax ) return; tmin = max( tmin, tzmin ),
\* tmax = min( tmax, tzmax )
CubeScalarZ(ray, tmin, tmax, z) ==
    IF Gt(tmin, z[2]) \/ Gt(z[1], tmax) THEN ray
    ELSE CubeScalarHit(ray, MaxF(tmin, z[1]), MinF(tmax, z[2]))

\* if ( tmin > tymax || tymin > tmax ) return; tmin = max( tmin, tymin ),
\* tmax = min( tmax, tymax )
CubeScalarXY(ray, x, y, z) ==
    IF Gt(x[1], y[2]) \/ Gt(y[1], x[2]) THEN ray
    ELSE CubeScalarZ(ray, MaxF(x[1], y[1]), MinF(x[2], y[2]), z)

CubeScalarAt(ray, o, d) ==
    CubeScalarXY(ray, CubeScalarSlab(o, d, 1), CubeScalarSlab(o, d, 2),
                 CubeScalarSlab(o, d, 3))

\* Cube::Intersect without SPEEDTRIX
CubeIntersectScalar(ray, invM) ==
    The({CubeScalarAt(ray, od[1], od[2]) :
            od \in {<<CubeO(ray, invM), CubeD(ray, invM)>>}})

\* rays that touch the cube as it is constructed (no transform): along the
\* diagonal of a face through an edge, inside a face plane, from inside
CubeGrazingRays ==
    {<<<<-1150, 0, 0>>, <<707, 707, 0>>>>,
     <<<<0, -1150, 0>>, <<0, 707, -707>>>>,
     <<<<-2000, 575, 0>>, <<One, 0, 0>>>>,
     <<<<0, 0, 0>>, <<0, One, 0>>>>,
     <<<<-2000, 0, 0>>, <<One, 0, 0>>>>}

\* the cube of the scene at some time, or the cube as Cube::Cube leaves it
CubeCallInit ==
    /\ SceneInit
    /\ \/ \E g \in RayGeoms, dist \in {Sentinel, One} :
            cubeCall = [pc |-> "call", ray |-> NewRay(g[1], g[2], dist),
                        invM |-> cubeInvM, sse |-> NewRay(g[1], g[2], dist),
                        scalar |-> NewRay(g[1], g[2], dist)]
       \/ \E g \in CubeGrazingRays, dist \in {Sentinel, One} :
            cubeCall = [pc |-> "call", ray |-> NewRay(g[1], g[2], dist),
                        invM |-> FastInvertedTransformNoScale(Identity),
                        sse |-> NewRay(g[1], g[2], dist),
                        scalar |-> NewRay(g[1], g[2], dist)]
    /\ FnIdle /\ OccIdle /\ GnIdle /\ TraceIdle
    /\ SetTimeIdle /\ TickIdle /\ LightIdle /\ GetCallIdle

\* cube.Intersect( ray ) in both builds
CubeIntersectBoth ==
    /\ cubeCall.pc = "call"
    /\ cubeCall' = [cubeCall EXCEPT
                      !.pc = "done",
                      !.sse = CubeIntersect(cubeCall.ray, cubeCall.invM),
                      !.scalar = CubeIntersectScalar(cubeCall.ray, cubeCall.invM)]
    /\ UNCHANGED <<sceneVars, fnVars, occVars, gnVars, traceVars, setLog, tick,
                   light, getCall>>

CubeNextAction == CubeIntersectBoth

SpecCube == CubeCallInit /\ [][CubeNextAction]_vars

\* C16 as stated: the SSE slab test and the scalar one accept or reject the
\* same rays and record the same distance, grazing rays (entering distance
\* equal to exiting distance) and rays starting inside the box included
C16_CubeBuildsAgree ==
    cubeCall.pc = "done" =>
        /\ cubeCall.sse.objIdx = cubeCall.scalar.objIdx
        /\ cubeCall.sse.t = cubeCall.scalar.t

\* ---------------------------------------------------------------------
\* Rays that leave the scene
\* ---------------------------------------------------------------------

\* the box the six room planes enclose; every other primitive lies in it
\* except the corner sphere, which reaches 8 units from its centre
SceneMin == <<-3 * One, -One, -3 * One>>
SceneMax == <<2990, 2 * One, 3990>>

\* on axis i the origin is beyond the box and the ray does not come back
LeavesOnAxis(O, D, i) ==
    \/ O[i] > SceneMax[i] /\ D[i] >= 0
    \/ O[i] < SceneMin[i] /\ D[i] <= 0

\* on axis i the ray keeps its distance to both room planes of the axis
ParallelOnAxis(O, D, i) ==
    O[i] >= SceneMin[i] /\ O[i] <= SceneMax[i] /\ D[i] = 0

\* the origin is outside the room and outside the corner sphere, and the
\* ray approaches neither the room nor the sphere's centre
PointsAway(O, D) ==
    /\ \E i \in 1..3 : LeavesOnAxis(O, D, i)
    /\ \A i \in 1..3 : LeavesOnAxis(O, D, i) \/ ParallelOnAxis(O, D, i)
    /\ Dot(VSub(O, CornerPos), VSub(O, CornerPos)) > CornerR2
    /\ Dot(VSub(O, CornerPos), D) >= 0

\* C17: when FindNearest returns for a ray that starts outside every
\* primitive and points away from the scene, the ray records no hit:
\* objIdx is -1 and ray.t is the sentinel it was created with
C17_AwayRayMisses ==
    (fnPc = "done" /\ PointsAway(fnRay.O, fnRay.D)) =>
        /\ fnRay.objIdx = -1
        /\ fnRay.t = Sentinel

\* the positive real roots of the torus' quartic for a ray
TorusPositiveRoots(ray) ==
    IF TorusMissesBound(ray) THEN {} ELSE {t \in TorusRoots(ray) : t > 0}

\* the ray a torus test restricted to positive roots below ray.t leaves
TorusNearestRoot(ray, pos) ==
    IF pos # {} /\ Lt(SetMin(pos), ray.t) THEN Hit(ray, SetMin(pos), 10) ELSE ray

\* C18: the torus step of FindNearest records a hit only at the smallest
\* positive real root of the quartic and only if that root is below ray.t;
\* when the quartic has no positive real root the ray is left as it was,
\* whatever ray.t holds
C18_TorusSmallestPositiveRoot ==
    [][fnPc = "torus" =>
          \E pos \in {TorusPositiveRoots(fnRay)} :
              fnRay' = TorusNearestRoot(fnRay, pos)]_vars

---------------------------------------------------------------------------
(* Claims about the rays Trace spawns *)

\* the frame above frame k of the stack is the call frame k is waiting for
Spawned(k) == stack[k + 1]

\* C19: of the rays Trace creates, a refracted ray carries the negation of
\* its parent's inside flag, and the reflected ray of a dielectric hit
\* (Fresnel reflection or total internal reflection) carries the parent's
\* flag, since it stays in the parent's medium
C19_InsideFollowsMedium ==
    \A k \in 1..(Len(stack) - 1) :
        /\ stack[k].pc = "refractRet" =>
               Spawned(k).ray.inside = ~stack[k].ray.inside
        /\ stack[k].pc = "fresnelRet" =>
               Spawned(k).ray.inside = stack[k].ray.inside

\* the call of frame f has found a hit and stands at one of its return
\* statements: the depth cut-off or the end of the function
HitReturns(f) ==
    /\ ~Escaped(f.ray)
    /\ \/ f.pc = "return"
       \/ f.pc = "check" /\ DepthExceeded(f.depth)

\* cost2 at the hit of frame f
HitCost2(f) ==
    Cost2Of(Eta(f.ray.inside),
            Cosi(f.ray.D, GetNormal(f.ray.objIdx, IntersectionPoint(f.ray),
                                    f.ray.D, CurScene)))

\* the children the material of the hit primitive calls for: on a
\* refractive primitive the reflected ray alone with weight 1 when cost2
\* is not positive, else the refracted ray with weight 1 - Fr and the
\* reflected ray with weight Fr; none when the primitive neither reflects
\* nor refracts
SpawnsByMaterial(f, cost2) ==
    /\ GetRefractivity(f.ray.objIdx) > 0 =>
         IF Gt(cost2, 0)
         THEN /\ f.children = 2
              /\ f.weights = <<One - f.Fr, f.Fr>>
              /\ f.weights[1] + f.weights[2] = One
         ELSE /\ f.children = 1
              /\ f.Fr = One
              /\ f.weights = <<One>>
    /\ (GetReflectivity(f.ray.objIdx) = 0 /\ GetRefractivity(f.ray.objIdx) = 0) =>
         /\ f.children = 0
         /\ f.weights = <<>>

\* C20 as stated: every call of Trace that hits a refractive primitive has
\* spawned one child (total internal reflection, weight 1) or two (weights
\* 1 - Fr and Fr) when it returns, and a call that hits a primitive with
\* reflectivity = refractivity = 0 has spawned none
C20_SpawnsByMaterial ==
    (stack # <<>> /\ HitReturns(Top)) =>
        \E cost2 \in {HitCost2(Top)} : SpawnsByMaterial(Top, cost2)

\* C20 amended: the same for every call of Trace at a depth of at most
\* MAXDEPTH; a call beyond MAXDEPTH returns before it looks at the material
C20_SpawnsByMaterialWithinDepth ==
    (stack # <<>> /\ HitReturns(Top) /\ ~DepthExceeded(Top.depth)) =>
        \E cost2 \in {HitCost2(Top)} : SpawnsByMaterial(Top, cost2)

\* C20 witness: a refracted ray inside the glass returns after total
\* internal reflection with its one child weighted 1, while its parent, hit
\* from outside with 0 < Fr < 1, waits for it as the first of two children
C20_Witness ==
    /\ Len(stack) = 2
    /\ Top.pc = "return"
    /\ GetRefractivity(Top.ray.objIdx) > 0
    /\ ~Gt(HitCost2(Top), 0)
    /\ Top.children = 1
    /\ Top.weights = <<One>>
    /\ stack[1].pc = "refractRet"
    /\ stack[1].Fr > 0
    /\ stack[1].Fr < One

---------------------------------------------------------------------------
(* The order of the tests of FindNearest *)

\* the tests of FindNearest, numbered in the order of the source
Tests == 1..8

\* test k applied to a ray on its own
TestAlone(k, ray, sc) ==
    CASE k = 1 -> StepPlaneX(ray)
      [] k = 2 -> StepPlaneY(ray)
      [] k = 3 -> StepPlaneZ(ray)
      [] k = 4 -> StepQuads(ray)
      [] k = 5 -> StepBall(ray, sc.spherePos)
      [] k = 6 -> StepCorner(ray)
      [] k = 7 -> CubeIntersect(ray, sc.cubeInvM)
      [] k = 8 -> TorusIntersect(ray)

\* what each test offers the ray FindNearest received
Offers(ray, sc) == [k \in Tests |-> TestAlone(k, ray, sc)]

\* the tests that offer a hit, and those among them no other test undercuts
Offering(of) == {k \in Tests : of[k].objIdx # -1}
Nearest(of) == {k \in Offering(of) : \A j \in Offering(of) : ~Lt(of[j].t, of[k].t)}

\* the first of a set of tests in the order of the source
FirstOf(S) == CHOOSE k \in S : \A j \in S : k <= j

\* the ray the tie rule gives: the nearest offer, the first tested among
\* equals, or the ray as received when no test offers a hit
TieRule(ray, of) ==
    IF Offering(of) = {} THEN ray
    ELSE Hit(ray, of[FirstOf(Nearest(of))].t, of[FirstOf(Nearest(of))].objIdx)

\* C21: the ray FindNearest returns is a function of the ray it received
\* and of the scene: it holds the smallest distance any test offers and,
\* when several tests offer that same distance, the identifier of the one
\* tested first (planes x, y, z, quads, ball, corner sphere, cube, torus);
\* and a test never replaces a hit by one at an equal distance
C21_FirstTestedWinsTies ==
    /\ [](fnPc = "done" =>
            \E of \in {Offers(FnRay0, CurScene)} : fnRay = TieRule(FnRay0, of))
    /\ [][fnRay' # fnRay => Lt(fnRay'.t, fnRay.t)]_vars

\* C21 witness: FindNearest has returned for a ray into the corner of the
\* room, where the three wall tests offer the same distance, and the wall
\* tested first, the left wall, holds the hit
C21_Witness ==
    /\ fnPc = "done"
    /\ fnRay.objIdx = 4
    /\ StepPlaneY(FnRay0).objIdx = 6
    /\ StepPlaneZ(FnRay0).objIdx = 8
    /\ StepPlaneY(FnRay0).t = fnRay.t
    /\ StepPlaneZ(FnRay0).t = fnRay.t

---------------------------------------------------------------------------
(* Scene::GetNormal and Scene::GetAlbedo called with any identifier *)

\* a slip that drops the early return of GetNormal
GetNormalGuard_Off(objIdx) == FALSE

\* if ( objIdx == -1 ) return float3( 0 ), in GetNormal and in GetAlbedo
GetNormalGuard(objIdx) == objIdx = -1
GetAlbedoGuard(objIdx) == objIdx = -1

\* a / b of two ints, b > 0: the quotient truncated towards zero
IntDiv(a, b) == IF a >= 0 THEN a \div b ELSE -((-a) \div b)

\* the component of N the plane branch writes: ( objIdx - 4 ) / 2
PlaneAxis(objIdx) == IntDiv(objIdx - 4, 2)

\* the primitives GetNormal reads past its early return; the plane branch
\* reads none, and writes outside N when its index is not 0, 1 or 2
GetNormalReads(objIdx) ==
    IF objIdx = 0 THEN {<<"quad", 0>>}
    ELSE IF objIdx = 1 THEN {<<"sphere", 0>>}
    ELSE IF objIdx = 2 THEN {<<"sphere2", 0>>}
    ELSE IF objIdx = 3 THEN {<<"cube", 0>>}
    ELSE IF objIdx = 10 THEN {<<"torus", 0>>}
    ELSE {}
GetNormalFaults(objIdx) ==
    objIdx \notin {0, 1, 2, 3, 10} /\ PlaneAxis(objIdx) \notin 0..2

\* the primitives GetAlbedo reads past its early return; plane[objIdx - 4]
\* lies outside the array when the index is not in 0..5
GetAlbedoReads(objIdx) ==
    IF objIdx = 0 THEN {<<"quad", 0>>}
    ELSE IF objIdx = 1 THEN {<<"sphere", 0>>}
    ELSE IF objIdx = 2 THEN {<<"sphere2", 0>>}
    ELSE IF objIdx = 3 THEN {<<"cube", 0>>}
    ELSE IF objIdx = 10 THEN {<<"torus", 0>>}
    ELSE {<<"plane", objIdx - 4>>}
GetAlbedoFaults(objIdx) ==
    objIdx \notin {0, 1, 2, 3, 10} /\ (objIdx - 4) \notin 0..5

\* the identifiers a ray can hold, and points to ask about: the origin, a
\* point of the floor, of the left wall, of the ceiling
RayIds == -1..10
GetPoints ==
    {Zero3, <<One, -One, One>>, <<-3 * One, 0, 0>>, <<One, 2 * One, One>>}

GetCallInit ==
    /\ SceneInit
    /\ \E objIdx \in RayIds, I \in GetPoints, wo \in GnDirs :
         getCall = [pc |-> "normal", objIdx |-> objIdx, I |-> I, wo |-> wo,
                    N |-> Zero3, albedo |-> Zero3, reads |-> {},
                    fault |-> FALSE]
    /\ FnIdle /\ OccIdle /\ GnIdle /\ TraceIdle
    /\ SetTimeIdle /\ TickIdle /\ LightIdle /\ CubeCallIdle

GetCallRest ==
    <<sceneVars, fnVars, occVars, gnVars, traceVars, setLog, tick, light,
      cubeCall>>

\* scene.GetNormal( objIdx, I, wo )
CallGetNormal ==
    /\ getCall.pc = "normal"
    /\ getCall' =
         [getCall EXCEPT
            !.pc = "albedo",
            !.N = GetNormal(getCall.objIdx, getCall.I, getCall.wo, CurScene),
            !.reads = IF GetNormalGuard(getCall.objIdx) THEN @
                      ELSE @ \cup GetNormalReads(getCall.objIdx),
            !.fault = IF GetNormalGuard(getCall.objIdx) THEN @
                      ELSE @ \/ GetNormalFaults(getCall.objIdx)]
    /\ UNCHANGED GetCallRest

\* scene.GetAlbedo( objIdx, I )
CallGetAlbedo ==
    /\ getCall.pc = "albedo"
    /\ \E albedo \in Albedos(getCall.objIdx, getCall.I) :
         getCall' =
           [getCall EXCEPT
              !.pc = "done",
              !.albedo = albedo,
              !.reads = IF GetAlbedoGuard(getCall.objIdx) THEN @
                        ELSE @ \cup GetAlbedoReads(getCall.objIdx),
              !.fault = IF GetAlbedoGuard(getCall.objIdx) THEN @
                        ELSE @ \/ GetAlbedoFaults(getCall.objIdx)]
    /\ UNCHANGED GetCallRest

GetCallNext == CallGetNormal \/ CallGetAlbedo

\* the two getters called directly, or called by Trace
GetterInit == GetCallInit \/ TraceInit
GetterNext == GetCallNext \/ Next
SpecGetters == GetterInit /\ [][GetterNext]_vars

\* C22: GetNormal and GetAlbedo called with objIdx == -1 return the zero
\* vector, read no primitive and index nothing out of range; and no call
\* of Trace has asked for the normal, albedo, reflectivity or refractivity
\* of a ray whose objIdx is -1
C22_NoHitIsDefended ==
    /\ (getCall.pc \in {"albedo", "done"} /\ getCall.objIdx = -1) =>
          /\ getCall.N = Zero3
          /\ getCall.reads = {}
          /\ ~getCall.fault
    /\ (getCall.pc = "done" /\ getCall.objIdx = -1) => getCall.albedo = Zero3
    /\ \A k \in 1..Len(stack) : stack[k].queried => stack[k].ray.objIdx # -1

\* C22 witness: both getters have been called with objIdx == -1 and an
\* incoming direction, and have returned
C22_Witness ==
    /\ getCall.pc = "done"
    /\ getCall.objIdx = -1
    /\ getCall.wo # Zero3
    /\ getCall.N = Zero3
    /\ getCall.albedo = Zero3
    /\ getCall.reads = {}

---------------------------------------------------------------------------
(* The wall identifiers *)

\* the identifiers of the six walls
WallIds == 4..9

\* plane[i] of the scene, i counted from 0 as in the source
PlaneAt(i) == ScenePlanes[i + 1]

\* C23: for every wall identifier 4..9 the normal GetNormal computes from
\* the identifier alone, before the facing test, is the normal plane[id - 4]
\* was constructed with, and plane[id - 4] carries that identifier; and
\* every identifier a test of FindNearest writes into the ray is 0, 1, 2, 3,
\* 10 or a wall identifier, whose index id - 4 into plane[] is in 0..5
C23_WallIdsMatchPlanes ==
    /\ [](\A id \in WallIds :
            /\ PlaneNormal(id) = PlaneAt(id - 4).N
            /\ PlaneAt(id - 4).idx = id)
    /\ [](fnRay.objIdx \in WallIds =>
            \A sc \in {CurScene} :
                SurfaceNormal(fnRay.objIdx, IntersectionPoint(fnRay), sc)
                    = PlaneAt(fnRay.objIdx - 4).N)
    /\ [][fnRay' # fnRay =>
            \/ fnRay'.objIdx \in {0, 1, 2, 3, 10}
            \/ /\ (fnRay'.objIdx - 4) \in 0..5
               /\ GetAlbedoReads(fnRay'.objIdx) = {<<"plane", fnRay'.objIdx - 4>>}
               /\ ~GetAlbedoFaults(fnRay'.objIdx)]_vars

\* C23 witness: FindNearest has returned with a hit on the back wall, whose
\* identifier 9 gives the z axis and the negative sign
C23_Witness ==
    /\ fnPc = "done"
    /\ fnRay.objIdx = 9
    /\ PlaneNormal(fnRay.objIdx) = <<0, 0, -One>>
    /\ PlaneAt(fnRay.objIdx - 4).d = 3990

=============================================================================
